---- MODULE Spec2Model ----
(***************************************************************************)
(* MangaHub metadata engine: the directory tree under the manga root, the  *)
(* sidecar records (metadata.json), the scanners of backend/models and the *)
(* HTTP handlers of backend/routes.                                        *)
(*                                                                         *)
(* Strings that the code inspects character by character (directory and    *)
(* file names, titles, identifiers, URL parameters) are sequences of       *)
(* one-character strings.  Opaque text (author, description, status) is a  *)
(* TLA+ string.  A float64 chapter number is the decimal that denotes it.   *)
(***************************************************************************)
EXTENDS Integers, Sequences, FiniteSets, TLC

VARIABLES fs, last, ops, running, browser

vars == <<fs, last, ops, running, browser>>

\* No browser is open
NoBrowser == <<>>

(***************************************************************************)
(* Characters and the string functions of Go's strings, strconv and        *)
(* path/filepath packages that the code calls.                             *)
(***************************************************************************)
Digits == <<"0", "1", "2", "3", "4", "5", "6", "7", "8", "9">>

UpperChars == <<"A", "B", "C", "D", "E", "F", "G", "H", "I", "J", "K", "L", "M",
                "N", "O", "P", "Q", "R", "S", "T", "U", "V", "W", "X", "Y", "Z">>

LowerChars == <<"a", "b", "c", "d", "e", "f", "g", "h", "i", "j", "k", "l", "m",
                "n", "o", "p", "q", "r", "s", "t", "u", "v", "w", "x", "y", "z">>

\* The characters of the model in ASCII order (byte order of Go strings).
AsciiOrder == <<" ", "!", "+", "-", ".">> \o Digits \o UpperChars \o <<"_">> \o LowerChars

Ord(c) == CHOOSE i \in 1..Len(AsciiOrder) : AsciiOrder[i] = c

IsDigit(c) == \E i \in 1..10 : Digits[i] = c

DigitVal(c) == (CHOOSE i \in 1..10 : Digits[i] = c) - 1

IsUpper(c) == \E i \in 1..26 : UpperChars[i] = c

IsLower(c) == \E i \in 1..26 : LowerChars[i] = c

ToLowerChar(c) == IF IsUpper(c) THEN LowerChars[CHOOSE i \in 1..26 : UpperChars[i] = c] ELSE c

\* strings.ToLower
ToLower(s) == [i \in 1..Len(s) |-> ToLowerChar(s[i])]

\* s[from:]
Drop(s, n) == SubSeq(s, n + 1, Len(s))

\* strings.HasPrefix
HasPrefix(s, p) == Len(p) <= Len(s) /\ SubSeq(s, 1, Len(p)) = p

RECURSIVE Contains(_, _)
\* strings.Contains
Contains(s, sub) ==
    IF Len(sub) > Len(s) THEN FALSE
    ELSE HasPrefix(s, sub) \/ Contains(Drop(s, 1), sub)

RECURSIVE ReplaceAll(_, _, _)
\* strings.ReplaceAll for a non-empty old: non-overlapping, left to right.
ReplaceAll(s, old, new) ==
    IF Len(s) = 0 THEN <<>>
    ELSE IF HasPrefix(s, old) THEN new \o ReplaceAll(Drop(s, Len(old)), old, new)
    ELSE <<s[1]>> \o ReplaceAll(Drop(s, 1), old, new)

RECURSIVE TrimLeft(_, _)
TrimLeft(s, c) == IF Len(s) > 0 /\ s[1] = c THEN TrimLeft(Drop(s, 1), c) ELSE s

RECURSIVE TrimRight(_, _)
TrimRight(s, c) ==
    IF Len(s) > 0 /\ s[Len(s)] = c THEN TrimRight(SubSeq(s, 1, Len(s) - 1), c) ELSE s

\* strings.Trim(s, "-") for a one-character cutset
Trim(s, c) == TrimRight(TrimLeft(s, c), c)

\* Byte-wise order of Go strings, the order os.ReadDir returns names in.
RECURSIVE StrLess(_, _)
StrLess(a, b) ==
    IF Len(b) = 0 THEN FALSE
    ELSE IF Len(a) = 0 THEN TRUE
    ELSE IF a[1] = b[1] THEN StrLess(Drop(a, 1), Drop(b, 1))
    ELSE Ord(a[1]) < Ord(b[1])

RECURSIVE SortNames(_)
\* A set of names as the sequence sorted by filename.
SortNames(S) ==
    IF S = {} THEN <<>>
    ELSE LET m == CHOOSE x \in S : \A y \in S \ {x} : StrLess(x, y)
         IN  <<m>> \o SortNames(S \ {m})

\* filepath.Ext of a name without separators: the suffix from the final dot.
Ext(name) ==
    LET dots == {i \in 1..Len(name) : name[i] = "."}
    IN  IF dots = {} THEN <<>>
        ELSE Drop(name, (CHOOSE i \in dots : \A j \in dots : j <= i) - 1)

RECURSIVE DigitsValue(_)
\* The value of a run of decimal digits.
DigitsValue(s) ==
    IF Len(s) = 0 THEN 0
    ELSE DigitsValue(SubSeq(s, 1, Len(s) - 1)) * 10 + DigitVal(s[Len(s)])

AllDigits(s) == \A i \in 1..Len(s) : IsDigit(s[i])

\* The digits of 1<<63 - 1, the largest int
MaxIntDigits ==
    <<"9", "2", "2", "3", "3", "7", "2", "0", "3", "6", "8", "5", "4", "7", "7", "5", "8",
      "0", "7">>

\* The digits of 1<<63, the magnitude of the smallest int
MinIntDigits ==
    <<"9", "2", "2", "3", "3", "7", "2", "0", "3", "6", "8", "5", "4", "7", "7", "5", "8",
      "0", "8">>

\* The number a run of digits denotes is above the one limit denotes
Exceeds(digits, limit) ==
    \/ Len(TrimLeft(digits, "0")) > Len(limit)
    \/ /\ Len(TrimLeft(digits, "0")) = Len(limit)
       /\ StrLess(limit, TrimLeft(digits, "0"))

\* strconv.Atoi: an optional sign and at least one decimal digit
\* (ErrSyntax otherwise), denoting a number an int holds (ErrRange
\* otherwise).
Atoi(s) ==
    LET signed == Len(s) > 0 /\ s[1] \in {"+", "-"}
        neg    == signed /\ s[1] = "-"
        body   == IF signed THEN Drop(s, 1) ELSE s
    IN  IF Len(body) = 0 \/ ~AllDigits(body) THEN [ok |-> FALSE, val |-> 0]
        ELSE IF Exceeds(body, IF neg THEN MinIntDigits ELSE MaxIntDigits)
        THEN [ok |-> FALSE, val |-> 0]
        ELSE [ok |-> TRUE, val |-> IF neg THEN 0 - DigitsValue(body) ELSE DigitsValue(body)]

(***************************************************************************)
(* Numbers.  A float64 is held as the shortest decimal that denotes it:    *)
(* its sign neg, its digits m (a natural without trailing zero, 0 for      *)
(* zero) and the exponent e of its last digit, the value being m * 10^e    *)
(* (1.5 is m = 15, e = -1; -0 is neg with m = 0).  Every decimal of at     *)
(* most 15 significant digits in the normal range denotes a float64 of its *)
(* own, so ==, < and the shortest formatting of these floats are those of  *)
(* the decimals.  NaN and the infinities are kept apart by the functions   *)
(* that can return them.                                                   *)
(***************************************************************************)
RECURSIVE Pow(_, _)
Pow(b, n) == IF n <= 0 THEN 1 ELSE b * Pow(b, n - 1)

Pow10(n) == Pow(10, n)

RECURSIVE Num(_, _, _)
\* The float64 with sign neg and value m * 10^e
Num(neg, m, e) ==
    IF m = 0 THEN [neg |-> neg, m |-> 0, e |-> 0]
    ELSE IF m % 10 = 0 THEN Num(neg, m \div 10, e + 1)
    ELSE [neg |-> neg, m |-> m, e |-> e]

Zero == Num(FALSE, 0, 0)

One == Num(FALSE, 1, 0)

\* The float64 of n hundredths
Hundredths(n) == IF n < 0 THEN Num(TRUE, 0 - n, 0 - 2) ELSE Num(FALSE, n, 0 - 2)

\* The float64 of the integer n
FloatOfInt(n) == Hundredths(n * 100)

RECURSIVE NatToStr(_)
NatToStr(n) == IF n < 10 THEN <<Digits[n + 1]>> ELSE NatToStr(n \div 10) \o <<Digits[(n % 10) + 1]>>

Abs(x) == IF x < 0 THEN 0 - x ELSE x

\* x == 0
IsZero(x) == x.m = 0

\* x == y (-0 == 0)
NumEq(x, y) == (x.m = 0 /\ y.m = 0) \/ x = y

\* |x| < |y|: by the position of the leading digit, then by the digits
MagLess(x, y) ==
    IF y.m = 0 THEN FALSE
    ELSE IF x.m = 0 THEN TRUE
    ELSE IF Len(NatToStr(x.m)) + x.e # Len(NatToStr(y.m)) + y.e
    THEN Len(NatToStr(x.m)) + x.e < Len(NatToStr(y.m)) + y.e
    ELSE StrLess(NatToStr(x.m), NatToStr(y.m))

\* x < y
NumLess(x, y) ==
    IF x.m = 0 /\ y.m = 0 THEN FALSE
    ELSE IF x.neg /\ x.m # 0
    THEN IF y.neg /\ y.m # 0 THEN MagLess(y, x) ELSE TRUE
    ELSE IF y.neg /\ y.m # 0 THEN FALSE
    ELSE MagLess(x, y)

\* The index after the run of digits that starts at index i of s.
DigitRunEnd(s, i) ==
    IF i > Len(s) THEN i
    ELSE CHOOSE j \in i..(Len(s) + 1) :
             /\ \A k \in i..(j - 1) : IsDigit(s[k])
             /\ (j = Len(s) + 1 \/ ~IsDigit(s[j]))

\* The parts of a decimal floating-point literal s whose integer digits are
\* s[i1..j-1], whose fraction digits are s[j+1..k-1] when a point stands at
\* j (k > j), and whose exponent digits are s[m..e-1] when an e stands at k
\* (e > k); wellFormed when the whole of s is consumed.
DecimalParts(s, i1, j, k, m, e) ==
    [wellFormed |-> /\ e = Len(s) + 1
                    /\ Len(SubSeq(s, i1, j - 1)) + Len(SubSeq(s, j + 1, k - 1)) > 0
                    /\ (e > k => e > m),
     plus    |-> i1 = 2 /\ s[1] = "+",
     neg     |-> i1 = 2 /\ s[1] = "-",
     hasDot  |-> k > j,
     intd    |-> SubSeq(s, i1, j - 1),
     fracd   |-> SubSeq(s, j + 1, k - 1),
     exp     |-> IF e <= k THEN 0
                 ELSE IF m = k + 2 /\ s[k + 1] = "-" THEN 0 - DigitsValue(SubSeq(s, m, e - 1))
                 ELSE DigitsValue(SubSeq(s, m, e - 1))]

\* The exponent digits start at m
ScanExponentDigits(s, i1, j, k, m) == DecimalParts(s, i1, j, k, m, DigitRunEnd(s, m))

\* The mantissa ends at k: an exponent follows when s[k] is e or E, with an
\* optional sign
ScanExponent(s, i1, j, k) ==
    IF k <= Len(s) /\ s[k] \in {"e", "E"}
    THEN ScanExponentDigits(s, i1, j, k,
                            IF k + 1 <= Len(s) /\ s[k + 1] \in {"+", "-"} THEN k + 2
                            ELSE k + 1)
    ELSE DecimalParts(s, i1, j, k, k + 1, k)

\* The integer digits end at j: a fraction follows when s[j] is a point
ScanFraction(s, i1, j) ==
    ScanExponent(s, i1, j, IF j <= Len(s) /\ s[j] = "." THEN DigitRunEnd(s, j + 1) ELSE j)

\* The scan of a decimal floating-point literal: sign, integer digits,
\* fraction digits, exponent.
ScanDecimal(s) ==
    IF Len(s) > 0 /\ s[1] \in {"+", "-"} THEN ScanFraction(s, 2, DigitRunEnd(s, 2))
    ELSE ScanFraction(s, 1, DigitRunEnd(s, 1))

\* The first 15 digits of math.MaxFloat64, 1.7976931348623157e308
MaxFloatDigits ==
    <<"1", "7", "9", "7", "6", "9", "3", "1", "3", "4", "8", "6", "2", "3", "1">>

\* A float64 that no decimal of at most 15 digits in the normal range
\* denotes (the nearest float64 of a longer literal, a subnormal): its value
\* is left open.
NotDecimal(sig, e) == CHOOSE v \in {} : v = <<sig, e>>

\* The nearest float64 of the decimal whose significant digits are sig (no
\* leading and no trailing zero) and whose last digit has exponent e:
\* beyond MaxFloat64 is a range error, below the smallest subnormal is zero.
NearestFloat(neg, sig, e) ==
    IF Len(sig) = 0 THEN [range |-> FALSE, val |-> Num(neg, 0, 0)]
    ELSE IF Len(sig) + e - 1 > 308 THEN [range |-> TRUE, val |-> Zero]
    ELSE IF Len(sig) + e - 1 < 0 - 324 THEN [range |-> FALSE, val |-> Num(neg, 0, 0)]
    ELSE IF Len(sig) <= 15 /\ Len(sig) + e - 1 = 308 /\ StrLess(MaxFloatDigits, sig)
    THEN [range |-> TRUE, val |-> Zero]
    ELSE IF Len(sig) > 15 \/ Len(sig) + e - 1 <= 0 - 308
    THEN [range |-> FALSE, val |-> NotDecimal(sig, e)]
    ELSE [range |-> FALSE, val |-> Num(neg, DigitsValue(sig), e)]

\* The value of a digit string with exponent e for its last digit: leading
\* and trailing zeros carry no value
FloatOfDigits(neg, digits, e) ==
    NearestFloat(neg, TrimRight(TrimLeft(digits, "0"), "0"),
                 e + Len(TrimLeft(digits, "0")) - Len(TrimRight(TrimLeft(digits, "0"), "0")))

\* The value of a scanned decimal literal.
DecimalValue(d) == FloatOfDigits(d.neg, d.intd \o d.fracd, d.exp - Len(d.fracd))

HexDigits == Digits \o <<"a", "b", "c", "d", "e", "f">>

IsHexDigit(c) == \E i \in 1..16 : HexDigits[i] = c

RECURSIVE HexValue(_)
\* The value of a run of (lower-case) hexadecimal digits.
HexValue(s) ==
    IF Len(s) = 0 THEN 0
    ELSE HexValue(SubSeq(s, 1, Len(s) - 1)) * 16
             + (CHOOSE i \in 1..16 : HexDigits[i] = s[Len(s)]) - 1

\* The index after the run of hexadecimal digits that starts at index i.
HexRunEnd(s, i) ==
    IF i > Len(s) THEN i
    ELSE CHOOSE j \in i..(Len(s) + 1) :
             /\ \A k \in i..(j - 1) : IsHexDigit(s[k])
             /\ (j = Len(s) + 1 \/ ~IsHexDigit(s[j]))

\* The parts of a hexadecimal floating-point literal s (lower case) whose
\* mantissa digits are s[i1..j-1] and, after a point at j, s[j+1..k-1], and
\* whose binary exponent, which must follow a p at k, has its digits at
\* s[m..e-1].
HexParts(s, i1, j, k, m, e) ==
    [wellFormed |-> /\ Len(s) >= i1
                    /\ e = Len(s) + 1
                    /\ Len(SubSeq(s, i1, j - 1)) + Len(SubSeq(s, j + 1, k - 1)) > 0
                    /\ k <= Len(s) /\ s[k] = "p"
                    /\ e > m,
     neg  |-> i1 = 4 /\ s[1] = "-",
     mant |-> SubSeq(s, i1, j - 1) \o SubSeq(s, j + 1, k - 1),
     exp  |-> (IF m <= Len(s) /\ m = k + 2 /\ s[k + 1] = "-"
               THEN 0 - DigitsValue(SubSeq(s, m, e - 1))
               ELSE DigitsValue(SubSeq(s, m, e - 1)))
                  - 4 * Len(SubSeq(s, j + 1, k - 1))]

\* The mantissa of a hexadecimal literal ends at k
ScanHexExponent(s, i1, j, k) ==
    HexParts(s, i1, j, k,
             IF k + 1 <= Len(s) /\ s[k + 1] \in {"+", "-"} THEN k + 2 ELSE k + 1,
             DigitRunEnd(s, IF k + 1 <= Len(s) /\ s[k + 1] \in {"+", "-"} THEN k + 2
                            ELSE k + 1))

\* The integer digits of a hexadecimal literal end at j
ScanHexFraction(s, i1, j) ==
    ScanHexExponent(s, i1, j, IF j <= Len(s) /\ s[j] = "." THEN HexRunEnd(s, j + 1) ELSE j)

\* The scan of a hexadecimal floating-point literal (lower case): sign, 0x,
\* mantissa, p, exponent.
ScanHex(s) ==
    IF Len(s) > 0 /\ s[1] \in {"+", "-"} THEN ScanHexFraction(s, 4, HexRunEnd(s, 4))
    ELSE ScanHexFraction(s, 3, HexRunEnd(s, 3))

\* s (lower case) has the base prefix 0x after its sign, and more after it
HasHexPrefix(s) ==
    \/ Len(s) > 2 /\ SubSeq(s, 1, 2) = <<"0", "x">>
    \/ Len(s) > 3 /\ s[1] \in {"+", "-"} /\ SubSeq(s, 2, 3) = <<"0", "x">>

\* The value of a scanned hexadecimal literal, mant * 2^exp, as a decimal
HexFloatValue(h) ==
    IF h.exp >= 0
    THEN FloatOfDigits(h.neg, NatToStr(HexValue(h.mant) * Pow(2, h.exp)), 0)
    ELSE FloatOfDigits(h.neg, NatToStr(HexValue(h.mant) * Pow(5, 0 - h.exp)), h.exp)

RECURSIVE UnderscoresFrom(_, _, _)
\* underscoreOK from index i on, saw being the kind of the last character:
\* an underscore follows a digit and is followed by one
UnderscoresFrom(s, i, saw) ==
    IF i > Len(s) THEN saw # "_"
    ELSE IF IsDigit(s[i]) \/ (HasHexPrefix(s) /\ IsHexDigit(s[i]))
    THEN UnderscoresFrom(s, i + 1, "0")
    ELSE IF s[i] = "_" THEN saw = "0" /\ UnderscoresFrom(s, i + 1, "_")
    ELSE saw # "_" /\ UnderscoresFrom(s, i + 1, "!")

\* underscoreOK(s) of strconv, s in lower case: after the sign, a base
\* prefix (0b, 0o, 0x) counts as a digit
underscoreOK(s) ==
    LET t == IF Len(s) > 0 /\ s[1] \in {"+", "-"} THEN Drop(s, 1) ELSE s
    IN  IF Len(t) >= 2 /\ t[1] = "0" /\ t[2] \in {"b", "o", "x"}
        THEN UnderscoresFrom(s, Len(s) - Len(t) + 3, "0")
        ELSE UnderscoresFrom(s, Len(s) - Len(t) + 1, "^")

\* The float64 of a well-formed literal, or the error it gives
FloatResult(v) ==
    IF v.range THEN [ok |-> FALSE, finite |-> TRUE, val |-> Zero]
    ELSE [ok |-> TRUE, finite |-> TRUE, val |-> v.val]

SyntaxError == [ok |-> FALSE, finite |-> TRUE, val |-> Zero]

\* The result of strconv.ParseFloat on the text whose lower-case form is low
\* and whose form without underscores is t.
ParseFloatOf(low, t) ==
    IF \/ low = <<"n", "a", "n">>
       \/ low \in {pre \o <<"i", "n", "f">> : pre \in {<<>>, <<"+">>, <<"-">>}}
       \/ low \in {pre \o <<"i", "n", "f", "i", "n", "i", "t", "y">> :
                       pre \in {<<>>, <<"+">>, <<"-">>}}
    THEN [ok |-> TRUE, finite |-> FALSE, val |-> Zero]
    ELSE IF t # low /\ ~underscoreOK(low) THEN SyntaxError
    ELSE IF HasHexPrefix(t)
    THEN IF ScanHex(t).wellFormed THEN FloatResult(HexFloatValue(ScanHex(t)))
         ELSE SyntaxError
    ELSE IF ScanDecimal(t).wellFormed THEN FloatResult(DecimalValue(ScanDecimal(t)))
    ELSE SyntaxError

\* strconv.ParseFloat(s, 64): decimal and hexadecimal literals, with
\* underscores between their digits, and the special names nan, inf and
\* infinity.  ok = FALSE for a syntax or a range error; finite = FALSE for
\* NaN and the infinities.
ParseFloat(s) == ParseFloatOf(ToLower(s), ReplaceAll(ToLower(s), <<"_">>, <<>>))

\* JSON's number grammar on a scanned literal: no plus sign, no leading
\* zero, digits on both sides of the point.
IsJSONNumber(d) ==
    /\ d.wellFormed
    /\ ~d.plus
    /\ Len(d.intd) > 0
    /\ (Len(d.intd) > 1 => d.intd[1] # "0")
    /\ (d.hasDot => Len(d.fracd) > 0)

\* json.Unmarshal into a float64 of the text t (blanks trimmed) whose scan
\* is d: null decodes to no change (0, no error), a number literal to its
\* value, anything else, a number out of range included, is an error.
UnmarshalNumber(t, d) ==
    IF t = <<"n", "u", "l", "l">> THEN [ok |-> TRUE, val |-> Zero]
    ELSE IF IsJSONNumber(d) /\ ~DecimalValue(d).range
    THEN [ok |-> TRUE, val |-> DecimalValue(d).val]
    ELSE [ok |-> FALSE, val |-> Zero]

\* jsonNumberToFloat: json.Unmarshal of the text into a float64; blanks
\* around the value are skipped.
jsonNumberToFloat(s) == UnmarshalNumber(Trim(s, " "), ScanDecimal(Trim(s, " ")))

\* The digits of m with the point e places from the right end: the 'f'
\* layout of m * 10^e
FixedPoint(digits, e) ==
    IF e >= 0 THEN digits \o [i \in 1..e |-> "0"]
    ELSE IF Len(digits) > 0 - e
    THEN SubSeq(digits, 1, Len(digits) + e) \o <<".">>
             \o SubSeq(digits, Len(digits) + e + 1, Len(digits))
    ELSE <<"0", ".">> \o [i \in 1..((0 - e) - Len(digits)) |-> "0"] \o digits

\* strconv.FormatFloat(f, 'f', -1, 64): the shortest decimal that reads back.
FormatFloatShortest(v) ==
    (IF v.neg THEN <<"-">> ELSE <<>>) \o FixedPoint(NatToStr(v.m), v.e)

RECURSIVE BitLen(_)
\* The number of binary digits of n
BitLen(n) == IF n = 0 THEN 0 ELSE 1 + BitLen(n \div 2)

\* 2^k modulo 100: from 2^2 on the residues repeat with period 20
TwoPowMod100(k) ==
    IF k < 2 THEN Pow(2, k)
    ELSE <<4, 8, 16, 32, 64, 28, 56, 12, 24, 48, 96, 92, 84, 68, 36, 72, 44, 88, 76, 52>>[
             ((k - 2) % 20) + 1]

\* The number of zero bits that lead the binary fraction r/100, 0 < r < 100
LeadingZeros(r) == 7 - BitLen((r * 128) \div 100)

\* The n-th bit of the binary fraction r/100
FractionBit(r, n) == 2 * ((r * TwoPowMod100(n - 1)) % 100) >= 100

\* The float64 nearest to h hundredths, h ending in 5, lies above h/100
\* (h is no multiple of 25: the float64 is not h/100 itself): the bit after
\* the 53 significant bits of h/100 is 1.
LiesAbove(h) ==
    FractionBit(h % 100, IF h >= 100 THEN 54 - BitLen(h \div 100)
                         ELSE 54 + LeadingZeros(h % 100))

\* The number of tenths 'f' with precision 1 prints for the value m * 10^e
\* (e < -1): the exact binary value of the float64 is rounded to nearest.
\* It differs from the decimal by less than any digit the model holds, so
\* the decimal decides, except when the decimal is a tie, x.y5: then the
\* float64 is the decimal itself when m is a multiple of 25 (round half to
\* even), and lies above or below it otherwise.
RoundedTenths(m, e) ==
    LET unit == Pow10((0 - e) - 1)
        q    == m \div unit
        rest == m % unit
    IN  IF (0 - e) - 1 > Len(NatToStr(m)) THEN 0
        ELSE IF 2 * rest < unit THEN q
        ELSE IF 2 * rest > unit THEN q + 1
        ELSE IF m % 25 = 0 THEN (IF q % 2 = 0 THEN q ELSE q + 1)
        ELSE IF LiesAbove(m) THEN q + 1 ELSE q

\* strconv.FormatFloat(f, 'f', 1, 64): one fraction digit.  A float64 of
\* 2^53 or more is printed with the digits of its binary value, which the
\* decimal does not give.
FormatFloat1(v) ==
    (IF v.neg THEN <<"-">> ELSE <<>>)
        \o (IF v.e >= 0 - 1 /\ Len(NatToStr(v.m)) + v.e > 15 THEN NotDecimal(v.m, v.e)
            ELSE IF v.e >= 0 THEN FixedPoint(NatToStr(v.m), v.e) \o <<".", "0">>
            ELSE IF v.e = 0 - 1 THEN FixedPoint(NatToStr(v.m), v.e)
            ELSE FixedPoint(NatToStr(RoundedTenths(v.m, v.e)), 0 - 1))

(***************************************************************************)
(* The directory tree.  A path is the sequence of its elements, starting   *)
(* with the root directory; the unset path "" is the empty sequence.  fs   *)
(* maps every existing path to its node.  A directory that is not readable *)
(* can be searched (its children can be opened) but not enumerated.        *)
(***************************************************************************)
RootName == <<"m", "a", "n", "g", "a">>

\* MetadataManager.RootDir
RootDir == <<RootName>>

\* MetadataFileName
MetadataFileName == <<"m", "e", "t", "a", "d", "a", "t", "a", ".", "j", "s", "o", "n">>

DirNode(readable) == [kind |-> "dir", readable |-> readable, data |-> [t |-> "none"]]

FileNode(data) == [kind |-> "file", readable |-> TRUE, data |-> data]

Image == [t |-> "image"]

\* A file of the library whose bytes json.Unmarshal rejects
Garbage == [t |-> "garbage"]

Json(obj) == [t |-> "json", obj |-> obj]

\* A file without bytes: what the open with O_TRUNC leaves
Empty == [t |-> "empty"]

\* The bytes of head followed by the end of rest: what a write of head from
\* offset 0 leaves of the longer content rest.  head is a whole document, so
\* json.Unmarshal rejects the bytes that follow it.
Torn(head, rest) == [t |-> "torn", head |-> head, rest |-> rest]

\* The element "." and the path ".", the working directory
Dot == <<".">>

\* The element ".."
DotDot == <<".", ".">>

RECURSIVE CleanElems(_, _)
\* filepath.Clean over the elements of a relative path, out being the
\* elements kept so far: "." is dropped, and ".." takes back the element
\* before it unless that is ".." itself or there is none.
CleanElems(rest, out) ==
    IF Len(rest) = 0 THEN out
    ELSE IF rest[1] = Dot THEN CleanElems(Tail(rest), out)
    ELSE IF rest[1] = DotDot /\ Len(out) > 0 /\ out[Len(out)] # DotDot
    THEN CleanElems(Tail(rest), SubSeq(out, 1, Len(out) - 1))
    ELSE CleanElems(Tail(rest), Append(out, rest[1]))

\* filepath.Clean: the empty result is "."
Clean(path) == IF CleanElems(path, <<>>) = <<>> THEN <<Dot>> ELSE CleanElems(path, <<>>)

\* filepath.Join(path, name): empty elements are ignored, the result is
\* Cleaned; "" when both are empty.
Join(path, name) ==
    IF path = <<>> /\ name = <<>> THEN <<>>
    ELSE Clean(path \o (IF name = <<>> THEN <<>> ELSE <<name>>))

\* filepath.Dir: all but the last element, Cleaned ("." for "" and for a
\* path of one element)
Dir(path) == Clean(SubSeq(path, 1, Len(path) - 1))

\* filepath.Base of a path held as its elements
Base(path) == IF Len(path) = 0 THEN Dot ELSE path[Len(path)]

\* filepath.Base of a path held as text: trailing separators are dropped,
\* then everything up to the last separator; "." for "", "/" for
\* separators alone.
BaseName(s) ==
    LET t    == TrimRight(s, "/")
        seps == {i \in 1..Len(t) : t[i] = "/"}
    IN  IF Len(s) = 0 THEN Dot
        ELSE IF Len(t) = 0 THEN <<"/">>
        ELSE IF seps = {} THEN t
        ELSE Drop(t, CHOOSE i \in seps : \A j \in seps : j <= i)

\* os.Stat(path) succeeds
Stat(f, path) == path \in DOMAIN f

IsDirAt(f, path) == path \in DOMAIN f /\ f[path].kind = "dir"

\* os.ReadDir(path) succeeds
CanReadDir(f, path) == IsDirAt(f, path) /\ f[path].readable

\* os.ReadDir(path): the names of the entries, sorted by filename.
ReadDir(f, path) ==
    SortNames({q[Len(q)] : q \in {r \in DOMAIN f : Len(r) = Len(path) + 1 /\ Dir(r) = path}})

\* os.ReadFile(path) succeeds
CanReadFile(f, path) == path \in DOMAIN f /\ f[path].kind = "file"

(***************************************************************************)
(* Records and their JSON form.  A slice is nil or a list; a JSON document *)
(* is the function from its keys to their values.                          *)
(***************************************************************************)
NilSlice == [nil |-> TRUE, elems |-> <<>>]

Slice(elems) == [nil |-> FALSE, elems |-> elems]

\* var response []gin.H grown by append: nil, which JSON writes as null,
\* when nothing was appended
Appended(elems) == IF Len(elems) = 0 THEN NilSlice ELSE Slice(elems)

\* The zero time.Time
ZeroTime == "0001-01-01T00:00:00Z"

\* time.Now()
Now == "now"

\* The zero value of MangaSeries
ZeroManga ==
    [ID |-> <<>>, Title |-> <<>>, Description |-> "", Author |-> "", Artist |-> "",
     CoverImage |-> <<>>, Genres |-> NilSlice, Status |-> "", PublishedYear |-> 0,
     LastUpdated |-> ZeroTime, ChapterCount |-> 0, AltTitles |-> NilSlice, Path |-> <<>>]

\* The zero value of Chapter
ZeroChapter ==
    [ID |-> <<>>, MangaID |-> <<>>, Number |-> Zero, Title |-> <<>>, ReleaseDate |-> ZeroTime,
     PageCount |-> 0, Path |-> <<>>, Volume |-> 0, Special |-> FALSE]

\* The keys of a record r restricted to the set K
Restrict(r, K) == [k \in K |-> r[k]]

\* json.MarshalIndent of a MangaSeries: the struct tags of manga.go; a field
\* tagged omitempty is left out when empty, Path is never written.
MarshalManga(m) ==
    Restrict([id |-> m.ID, title |-> m.Title, description |-> m.Description,
              author |-> m.Author, artist |-> m.Artist, coverImage |-> m.CoverImage,
              genres |-> m.Genres, status |-> m.Status, publishedYear |-> m.PublishedYear,
              lastUpdated |-> m.LastUpdated, chapterCount |-> m.ChapterCount,
              altTitles |-> m.AltTitles],
             {"id", "title", "description", "author", "coverImage", "genres", "status",
              "lastUpdated", "chapterCount"}
                 \cup (IF m.Artist # "" THEN {"artist"} ELSE {})
                 \cup (IF m.PublishedYear # 0 THEN {"publishedYear"} ELSE {})
                 \cup (IF Len(m.AltTitles.elems) > 0 THEN {"altTitles"} ELSE {}))

\* The value of key k of a document, or the field's current value when the
\* key is absent.
Field(obj, k, current) == IF k \in DOMAIN obj THEN obj[k] ELSE current

\* json.Unmarshal of a document into a MangaSeries m: present keys overwrite,
\* absent keys leave the field as it was, unknown keys are ignored.
UnmarshalManga(obj, m) ==
    [ID |-> Field(obj, "id", m.ID), Title |-> Field(obj, "title", m.Title),
     Description |-> Field(obj, "description", m.Description),
     Author |-> Field(obj, "author", m.Author), Artist |-> Field(obj, "artist", m.Artist),
     CoverImage |-> Field(obj, "coverImage", m.CoverImage),
     Genres |-> Field(obj, "genres", m.Genres), Status |-> Field(obj, "status", m.Status),
     PublishedYear |-> Field(obj, "publishedYear", m.PublishedYear),
     LastUpdated |-> Field(obj, "lastUpdated", m.LastUpdated),
     ChapterCount |-> Field(obj, "chapterCount", m.ChapterCount),
     AltTitles |-> Field(obj, "altTitles", m.AltTitles), Path |-> m.Path]

\* json.MarshalIndent of a Chapter: the struct tags of the Chapter type.
MarshalChapter(c) ==
    Restrict([id |-> c.ID, mangaId |-> c.MangaID, number |-> c.Number, title |-> c.Title,
              releaseDate |-> c.ReleaseDate, pageCount |-> c.PageCount,
              volume |-> c.Volume, special |-> c.Special],
             {"id", "mangaId", "number", "title", "releaseDate", "pageCount"}
                 \cup (IF c.Volume # 0 THEN {"volume"} ELSE {})
                 \cup (IF c.Special THEN {"special"} ELSE {}))

\* json.Unmarshal of a document into a Chapter c.
UnmarshalChapter(obj, c) ==
    [ID |-> Field(obj, "id", c.ID), MangaID |-> Field(obj, "mangaId", c.MangaID),
     Number |-> Field(obj, "number", c.Number), Title |-> Field(obj, "title", c.Title),
     ReleaseDate |-> Field(obj, "releaseDate", c.ReleaseDate),
     PageCount |-> Field(obj, "pageCount", c.PageCount), Path |-> c.Path,
     Volume |-> Field(obj, "volume", c.Volume), Special |-> Field(obj, "special", c.Special)]

\* LoadFromJSON that leaves Path as the record had it
mutLoadManga(f, path) ==
    IF ~CanReadFile(f, path) \/ f[path].data.t # "json"
    THEN [err |-> "MetadataError", manga |-> ZeroManga]
    ELSE [err |-> "", manga |-> UnmarshalManga(f[path].data.obj, ZeroManga)]

\* LoadFromJSON that leaves Path as the record had it
mutLoadMangaInto(m, f, path) ==
    IF ~CanReadFile(f, path) \/ f[path].data.t # "json"
    THEN [err |-> "MetadataError", manga |-> m]
    ELSE [err |-> "", manga |-> UnmarshalManga(f[path].data.obj, m)]

\* m.LoadFromJSON(path) of a MangaSeries m: read, decode into m, stamp Path
\* with the directory of the sidecar; m is left as it was on an error.
LoadMangaInto(m, f, path) ==
    IF ~CanReadFile(f, path) \/ f[path].data.t # "json"
    THEN [err |-> "MetadataError", manga |-> m]
    ELSE [err |-> "", manga |-> [UnmarshalManga(f[path].data.obj, m) EXCEPT !.Path = Dir(path)]]

\* c.LoadFromJSON(path) of a Chapter c.
LoadChapterInto(c, f, path) ==
    IF ~CanReadFile(f, path) \/ f[path].data.t # "json"
    THEN [err |-> "MetadataError", chapter |-> c]
    ELSE [err |-> "", chapter |-> [UnmarshalChapter(f[path].data.obj, c)
                                       EXCEPT !.Path = Dir(path)]]

\* MangaSeries.LoadFromJSON(path) into a zero record, as the scanners call it
LoadManga(f, path) == LoadMangaInto(ZeroManga, f, path)

\* Chapter.LoadFromJSON(path) into a zero record, as the scanners call it
LoadChapter(f, path) == LoadChapterInto(ZeroChapter, f, path)

(***************************************************************************)
(* Pages of a chapter directory.                                           *)
(***************************************************************************)
JsonExt == <<".", "j", "s", "o", "n">>

JpgExt == <<".", "j", "p", "g">>

JpegExt == <<".", "j", "p", "e", "g">>

PngExt == <<".", "p", "n", "g">>

\* A test that knows the sidecar by its exact name only
mutIsMetadataFile(filename) == filename = MetadataFileName

\* isMetadataFile
isMetadataFile(filename) == filename = MetadataFileName \/ Ext(filename) = JsonExt

\* The filename stem: the name before its final extension.
Stem(name) == SubSeq(name, 1, Len(name) - Len(Ext(name)))

\* The text GetPages hands to strconv.Atoi:
\*   pageNumStr := filepath.Base(file.Name())
\*   pageNumStr = filepath.Ext(pageNumStr)
\*   pageNumStr = pageNumStr[:len(pageNumStr)-len(filepath.Ext(pageNumStr))]
PageNumStr(name) ==
    LET e == Ext(Base(<<name>>))
    IN  SubSeq(e, 1, Len(e) - Len(Ext(e)))

\* The page GetPages builds for one file, given the pages collected so far.
PageOf(c, name, pages) ==
    LET conv == Atoi(PageNumStr(name))
    IN  [Number |-> IF conv.ok THEN conv.val ELSE Len(pages) + 1,
         ImagePath |-> Join(c.Path, name), ChapterID |-> c.ID, MangaID |-> c.MangaID]

RECURSIVE CollectPages(_, _, _, _)
\* The loop of GetPages over the directory entries, in ReadDir order.
CollectPages(f, c, names, pages) ==
    IF Len(names) = 0 THEN pages
    ELSE LET name == names[1]
         IN  IF IsDirAt(f, Join(c.Path, name)) \/ isMetadataFile(name)
             THEN CollectPages(f, c, Drop(names, 1), pages)
             ELSE CollectPages(f, c, Drop(names, 1), Append(pages, PageOf(c, name, pages)))

RECURSIVE InsertPage(_, _)
InsertPage(sorted, p) ==
    IF Len(sorted) = 0 THEN <<p>>
    ELSE IF p.Number < sorted[Len(sorted)].Number
         THEN Append(InsertPage(SubSeq(sorted, 1, Len(sorted) - 1), p), sorted[Len(sorted)])
         ELSE Append(sorted, p)

RECURSIVE SortPages(_)
\* sort.Slice by Number (insertion sort, which Go uses for short slices).
SortPages(pages) ==
    IF Len(pages) = 0 THEN <<>>
    ELSE InsertPage(SortPages(SubSeq(pages, 1, Len(pages) - 1)), pages[Len(pages)])

\* A return that leaves PageCount as the chapter had it
mutPagesOf(c, pages) == [err |-> "", pages |-> pages, chapter |-> c]

\* GetPages after the loop: the pages sorted, c.PageCount = len(pages)
PagesOf(c, pages) ==
    [err |-> "", pages |-> pages, chapter |-> [c EXCEPT !.PageCount = Len(pages)]]

\* Chapter.GetPages: the sorted pages and the chapter with PageCount updated.
GetPages(f, c) ==
    IF ~CanReadDir(f, c.Path)
    THEN [err |-> "ChapterNotFoundError", pages |-> <<>>, chapter |-> c]
    ELSE PagesOf(c, SortPages(CollectPages(f, c, ReadDir(f, c.Path), <<>>)))

\* Page.GetNextPageNumber
GetNextPageNumber(p) == p.Number + 1

\* A predecessor without the sentinel
mutGetPrevPageNumber(p) == p.Number - 1

\* Page.GetPrevPageNumber
GetPrevPageNumber(p) == IF p.Number <= 1 THEN 0 ELSE p.Number - 1

(***************************************************************************)
(* Directory inference and the scanners of MetadataManager.                *)
(***************************************************************************)
IsImageExt(ext) == ext = JpgExt \/ ext = PngExt \/ ext = JpegExt

\* if err == nil { chapterNum = num }; if chapterNum == 0 { chapterNum = 1 }
ChapterNumOf(conv) == IF conv.ok /\ ~IsZero(conv.val) THEN conv.val ELSE One

\* The chapter number CreateChapterFromDirectory derives from the name.
InferChapterNumber(dirName) ==
    ChapterNumOf(jsonNumberToFloat(
        ReplaceAll(ReplaceAll(ReplaceAll(ToLower(dirName),
                                         <<"c", "h", "a", "p", "t", "e", "r", "-">>, <<>>),
                              <<"c", "h", "a", "p", "t", "e", "r">>, <<>>),
                   <<"c", "h">>, <<>>)))

\* MetadataManager.CreateChapterFromDirectory
CreateChapterFromDirectory(f, mangaID, dirPath) ==
    LET dirName == Base(dirPath)
        entries == IF CanReadDir(f, dirPath) THEN ReadDir(f, dirPath) ELSE <<>>
        images  == {i \in 1..Len(entries) :
                       /\ ~IsDirAt(f, Join(dirPath, entries[i]))
                       /\ IsImageExt(ToLower(Ext(entries[i])))}
    IN  [err |-> "",
         chapter |-> [ID |-> dirName, MangaID |-> mangaID,
                      Number |-> InferChapterNumber(dirName),
                      Title |-> ReplaceAll(dirName, <<"-">>, <<" ">>),
                      ReleaseDate |-> Now, PageCount |-> Cardinality(images),
                      Path |-> dirPath, Volume |-> 0, Special |-> FALSE]]

\* A scan that starts afresh after a chapter that fails to load
mutAppendChapter(chapters, r) == IF r.err # "" THEN <<>> ELSE Append(chapters, r.chapter)

\* chapters = append(chapters, chapter) unless loading or creating failed
AppendChapter(chapters, r) == IF r.err # "" THEN chapters ELSE Append(chapters, r.chapter)

RECURSIVE ChaptersOf(_, _, _, _)
\* The loop of ScanForChapters over the entries of the series directory.
ChaptersOf(f, manga, names, chapters) ==
    IF Len(names) = 0 THEN chapters
    ELSE LET name         == names[1]
             chapterPath  == Join(manga.Path, name)
             metadataPath == Join(chapterPath, MetadataFileName)
             rest         == Drop(names, 1)
         IN  IF ~IsDirAt(f, chapterPath) \/ HasPrefix(name, <<".">>)
             THEN ChaptersOf(f, manga, rest, chapters)
             ELSE IF Stat(f, metadataPath)
             THEN ChaptersOf(f, manga, rest,
                             AppendChapter(chapters, LoadChapter(f, metadataPath)))
             ELSE ChaptersOf(f, manga, rest,
                             AppendChapter(chapters,
                                           CreateChapterFromDirectory(f, manga.ID, chapterPath)))

\* MetadataManager.ScanForChapters
ScanForChapters(f, manga) ==
    IF ~CanReadDir(f, manga.Path) THEN [err |-> "MetadataError", chapters |-> <<>>]
    ELSE [err |-> "", chapters |-> ChaptersOf(f, manga, ReadDir(f, manga.Path), <<>>)]

\* The cover image CreateMangaFromDirectory picks: a file named like a cover
\* or a thumbnail, else the first entry with an image extension.
CoverOf(f, dirPath) ==
    LET files  == IF CanReadDir(f, dirPath) THEN ReadDir(f, dirPath) ELSE <<>>
        named  == {i \in 1..Len(files) :
                      /\ ~IsDirAt(f, Join(dirPath, files[i]))
                      /\ \/ Contains(ToLower(files[i]), <<"c", "o", "v", "e", "r">>)
                         \/ ToLower(files[i]) = <<"t", "h", "u", "m", "b", "n", "a", "i", "l">> \o JpgExt
                         \/ ToLower(files[i]) = <<"t", "h", "u", "m", "b", "n", "a", "i", "l">> \o PngExt}
        images == {i \in 1..Len(files) : IsImageExt(ToLower(Ext(files[i])))}
        first(S) == CHOOSE i \in S : \A j \in S : i <= j
    IN  IF named # {} THEN files[first(named)]
        ELSE IF images # {} THEN files[first(images)]
        ELSE <<>>

\* An inference that leaves the chapter count at zero
mutWithChapterCount(f, manga) == [err |-> "", manga |-> manga]

\* CreateMangaFromDirectory: "Count chapters"
WithChapterCount(f, manga) ==
    [err |-> "",
     manga |-> [manga EXCEPT !.ChapterCount = Len(ScanForChapters(f, manga).chapters)]]

\* CreateMangaFromDirectory, up to "Count chapters": the record named after
\* the directory, with its cover image
InferredManga(f, dirPath) ==
    [ZeroManga EXCEPT !.ID = Base(dirPath),
                      !.Title = ReplaceAll(Base(dirPath), <<"-">>, <<" ">>),
                      !.Description = "No description available",
                      !.Path = dirPath,
                      !.LastUpdated = Now,
                      !.Status = "Unknown",
                      !.CoverImage = CoverOf(f, dirPath)]

\* MetadataManager.CreateMangaFromDirectory
CreateMangaFromDirectory(f, dirPath) == WithChapterCount(f, InferredManga(f, dirPath))

\* mangas = append(mangas, manga) unless loading or creating failed
AppendManga(mangas, r) == IF r.err # "" THEN mangas ELSE Append(mangas, r.manga)

RECURSIVE MangasOf(_, _, _)
\* The loop of ScanForManga over the entries of the root directory.
MangasOf(f, names, mangas) ==
    IF Len(names) = 0 THEN mangas
    ELSE LET mangaPath    == Join(RootDir, names[1])
             metadataPath == Join(mangaPath, MetadataFileName)
             rest         == Drop(names, 1)
         IN  IF ~IsDirAt(f, mangaPath) THEN MangasOf(f, rest, mangas)
             ELSE IF Stat(f, metadataPath)
             THEN MangasOf(f, rest, AppendManga(mangas, LoadManga(f, metadataPath)))
             ELSE MangasOf(f, rest, AppendManga(mangas, CreateMangaFromDirectory(f, mangaPath)))

\* MetadataManager.ScanForManga
ScanForManga(f) ==
    IF ~CanReadDir(f, RootDir) THEN [err |-> "MetadataError", mangas |-> <<>>]
    ELSE [err |-> "", mangas |-> MangasOf(f, ReadDir(f, RootDir), <<>>)]

\* GetMangaByID, "Fallback": the first series of the full scan whose ID is id
FindManga(scan, id) ==
    LET hits == {i \in 1..Len(scan.mangas) : scan.mangas[i].ID = id}
    IN  IF scan.err # "" THEN [err |-> scan.err, manga |-> ZeroManga]
        ELSE IF hits = {} THEN [err |-> "MangaNotFoundError", manga |-> ZeroManga]
        ELSE [err |-> "", manga |-> scan.mangas[CHOOSE i \in hits : \A j \in hits : i <= j]]

\* MetadataManager.GetMangaByID: the sidecar at root/id when it exists,
\* else the first series of a full scan with that ID.
GetMangaByID(f, id) ==
    IF Stat(f, Join(Join(RootDir, id), MetadataFileName))
    THEN LoadManga(f, Join(Join(RootDir, id), MetadataFileName))
    ELSE FindManga(ScanForManga(f), id)

(***************************************************************************)
(* Writing.  io is what the operating system does with the request's       *)
(* write: "ok", "mkdirfail" (the directory cannot be created), "openfail"  *)
(* (the file cannot be opened for writing: nothing changes) or "writefail" *)
(* (the write fails after os.WriteFile has opened and truncated the file). *)
(***************************************************************************)
IOOutcomes == {"ok", "mkdirfail", "openfail", "writefail"}

\* The proper prefixes of a path and the path itself, below the root's parent
Prefixes(path) == {SubSeq(path, 1, n) : n \in 1..Len(path)}

\* os.MkdirAll(path, 0755)
MkdirAll(f, path, io) ==
    IF IsDirAt(f, path) THEN [err |-> "", fs |-> f]
    ELSE IF io = "mkdirfail" \/ \E q \in Prefixes(path) : q \in DOMAIN f /\ f[q].kind # "dir"
    THEN [err |-> "mkdir", fs |-> f]
    ELSE [err |-> "",
          fs |-> [q \in DOMAIN f \cup Prefixes(path) |->
                     IF q \in DOMAIN f THEN f[q] ELSE DirNode(TRUE)]]

\* An open that leaves the old content in place until the write
mutOpenTrunc(f, path) ==
    IF ~IsDirAt(f, Dir(path)) \/ IsDirAt(f, path)
    THEN [err |-> "write", fs |-> f]
    ELSE [err |-> "", fs |-> [q \in DOMAIN f \cup {path} |->
                                 IF q = path /\ q \notin DOMAIN f THEN FileNode(Empty)
                                 ELSE f[q]]]

\* os.WriteFile, first half: OpenFile(path, O_WRONLY|O_CREATE|O_TRUNC),
\* which creates the file or empties it
OpenTrunc(f, path) ==
    IF ~IsDirAt(f, Dir(path)) \/ IsDirAt(f, path)
    THEN [err |-> "write", fs |-> f]
    ELSE [err |-> "", fs |-> [q \in DOMAIN f \cup {path} |->
                                 IF q = path THEN FileNode(Empty) ELSE f[q]]]

(***************************************************************************)
(* The bytes of a sidecar.  json.MarshalIndent(v, "", "  ") writes "{", a  *)
(* line for each key (two blanks, the quoted key, ": " and the value),     *)
(* commas between the lines, and "}" on a line of its own; a list that is  *)
(* not empty takes a line for each element, four blanks deep, and "]" two  *)
(* blanks deep.  No text of the model holds a character that JSON escapes. *)
(* A time is written quoted in RFC 3339, with the fraction of its second   *)
(* (no trailing zeros) and its zone: the zero time and the dates of the    *)
(* libraries are written as the model holds them; time.Now() takes from 22 *)
(* bytes (a whole second in UTC) to 37 (nine digits and a numeric zone),   *)
(* and the model, which holds every time.Now() as Now, takes its document  *)
(* to have any of these sizes.                                             *)
(***************************************************************************)
NowSizes == 22..37

TextKeys ==
    {"id", "title", "description", "author", "artist", "coverImage", "status", "mangaId"}

ListKeys == {"genres", "altTitles"}

TimeKeys == {"lastUpdated", "releaseDate"}

IntKeys == {"publishedYear", "chapterCount", "pageCount", "volume"}

\* The bytes of an int
IntSize(n) == (IF n < 0 THEN 1 ELSE 0) + Len(NatToStr(Abs(n)))

\* The bytes of a float64 in encoding/json: the shortest digits that read
\* back, in the 'f' layout from 1e-6 up to 1e21 and in the 'e' layout, its
\* exponent without a leading zero, elsewhere
FloatSize(v) ==
    LET ds    == NatToStr(v.m)
        point == Len(ds) + v.e
    IN  (IF v.neg THEN 1 ELSE 0)
            + (IF v.m = 0 THEN 1
               ELSE IF point > 21 \/ point <= 0 - 6
               THEN Len(ds) + (IF Len(ds) > 1 THEN 1 ELSE 0) + 2
                        + Len(NatToStr(Abs(point - 1)))
               ELSE Len(FixedPoint(ds, v.e)))

RECURSIVE ElemsSize(_)
\* The bytes of the lines of the elements of a list of texts, without the
\* commas
ElemsSize(elems) ==
    IF Len(elems) = 0 THEN 0 ELSE 1 + 4 + Len(elems[1]) + 2 + ElemsSize(Tail(elems))

\* The bytes of a list of texts: null, [] or the elements line by line
ListSize(s) ==
    IF s.nil THEN 4
    ELSE IF Len(s.elems) = 0 THEN 2
    ELSE 1 + ElemsSize(s.elems) + (Len(s.elems) - 1) + 1 + 2 + 1

\* The bytes of the value v of key k, a time.Now() taking now bytes
ValueSize(k, v, now) ==
    IF k \in TextKeys THEN Len(v) + 2
    ELSE IF k \in ListKeys THEN ListSize(v)
    ELSE IF k \in TimeKeys THEN (IF v = Now THEN now ELSE Len(v) + 2)
    ELSE IF k \in IntKeys THEN IntSize(v)
    ELSE IF k = "number" THEN FloatSize(v)
    ELSE IF v THEN 4 ELSE 5

RECURSIVE LinesSize(_, _, _)
\* The bytes of the lines of the keys K of the document obj, without the
\* commas
LinesSize(obj, K, now) ==
    IF K = {} THEN 0
    ELSE LET k == CHOOSE x \in K : TRUE
         IN  1 + 2 + (Len(k) + 2) + 2 + ValueSize(k, obj[k], now)
                 + LinesSize(obj, K \ {k}, now)

\* The bytes json.MarshalIndent writes for the document obj
DocSize(obj, now) ==
    IF DOMAIN obj = {} THEN 2
    ELSE 1 + LinesSize(obj, DOMAIN obj, now) + (Cardinality(DOMAIN obj) - 1) + 1 + 1

RECURSIVE SizeOf(_, _)
\* The bytes of the content data of a file the server has opened or
\* written: none after the open, those of the document after a write, those
\* of the longer content after a shorter write
SizeOf(data, now) ==
    IF data.t = "json" THEN DocSize(data.obj, now)
    ELSE IF data.t = "torn" THEN SizeOf(data.rest, now)
    ELSE 0

\* The sizes the content data can have
SizesOf(data) == {SizeOf(data, now) : now \in NowSizes}

RECURSIVE SizeUnknown(_)
\* The content is, or ends in, bytes the server has not written: those of
\* a file of the library that is no sidecar json.MarshalIndent wrote
SizeUnknown(data) ==
    data.t \in {"garbage", "image"} \/ (data.t = "torn" /\ SizeUnknown(data.rest))

\* f.Write(data) at offset 0 of a file that holds old: the file is not
\* truncated again, so data replaces old when it is at least as long, and
\* the end of old stays after it when it is shorter
Overwritten(data, old) ==
    (IF SizeUnknown(old) \/ \E n \in SizesOf(data), m \in SizesOf(old) : n >= m
     THEN {data} ELSE {})
        \cup (IF SizeUnknown(old) \/ \E n \in SizesOf(data), m \in SizesOf(old) : n < m
              THEN {Torn(data, old)} ELSE {})

\* os.WriteFile, second half: Write(data) and Close, on the file as it is
\* by then: the trees it can leave
WriteAll(f, path, data) ==
    {[q \in DOMAIN f |-> IF q = path THEN FileNode(c) ELSE f[q]] :
        c \in Overwritten(data, f[path].data)}

\* os.WriteFile(path, data, 0644), run with nothing else in flight: open,
\* write, close.  A failed write leaves the truncated file.
WriteFile(f, path, data, io) ==
    IF io = "openfail" \/ OpenTrunc(f, path).err # "" THEN [err |-> "write", fs |-> f]
    ELSE IF io = "writefail" THEN [err |-> "write", fs |-> OpenTrunc(f, path).fs]
    ELSE [err |-> "",
          fs |-> CHOOSE t \in WriteAll(OpenTrunc(f, path).fs, path, data) : TRUE]

\* MangaSeries.SaveToJSON(path)
SaveManga(f, m, path, io) ==
    LET w == WriteFile(f, path, Json(MarshalManga(m)), io)
    IN  [err |-> IF w.err = "" THEN "" ELSE "MetadataError", fs |-> w.fs]

(***************************************************************************)
(* The HTTP handlers of routes.go.  A response is its status and its JSON  *)
(* body (the function from the keys present to their values).  The         *)
(* operators ending in Resp are a GET handler from its first line to its   *)
(* last on a tree that does not change while it runs; the steps in which   *)
(* the handlers read and write the tree next to other requests are those   *)
(* of the server further down.                                             *)
(***************************************************************************)
RECURSIVE CollapseHyphens(_)
\* for strings.Contains(slug, "--") { slug = strings.ReplaceAll(slug, "--", "-") }
CollapseHyphens(slug) ==
    IF Contains(slug, <<"-", "-">>) THEN CollapseHyphens(ReplaceAll(slug, <<"-", "-">>, <<"-">>))
    ELSE slug

\* regexp [^a-z0-9\-] replaced by nothing
KeepSlugChars(s) ==
    LET keep(c) == IsLower(c) \/ IsDigit(c) \/ c = "-"
        F[i \in 0..Len(s)] == IF i = 0 THEN <<>>
                              ELSE IF keep(s[i]) THEN Append(F[i - 1], s[i]) ELSE F[i - 1]
    IN  F[Len(s)]

\* A slug that keeps the hyphens at its ends
mutCreateSlug(s) ==
    CollapseHyphens(KeepSlugChars(ReplaceAll(ToLower(s), <<" ">>, <<"-">>)))

\* createSlug
createSlug(s) ==
    Trim(CollapseHyphens(KeepSlugChars(ReplaceAll(ToLower(s), <<" ">>, <<"-">>))), "-")

StatusOK == 200
StatusCreated == 201
StatusBadRequest == 400
StatusNotFound == 404
StatusConflict == 409
StatusInternalServerError == 500

Resp(status, body) == [status |-> status, body |-> body]

ErrResp(status, msg) == Resp(status, [error |-> msg])

\* The response to a failed GetMangaByID
MangaErrResp(err) ==
    IF err = "MangaNotFoundError" THEN ErrResp(StatusNotFound, "Manga not found")
    ELSE ErrResp(StatusInternalServerError, "Failed to retrieve manga")

\* A lookup that settles for the first chapter when none has the number
mutFindChapter(chapters, num) ==
    LET hits == {i \in 1..Len(chapters) : num.finite /\ NumEq(chapters[i].Number, num.val)}
    IN  IF hits # {} THEN CHOOSE i \in hits : \A j \in hits : i <= j
        ELSE IF Len(chapters) > 0 THEN 1
        ELSE 0

\* The index of the first chapter whose Number equals the requested number,
\* 0 when there is none (NaN and the infinities equal no stored number).
FindChapter(chapters, num) ==
    LET hits == {i \in 1..Len(chapters) : num.finite /\ NumEq(chapters[i].Number, num.val)}
    IN  IF hits = {} THEN 0 ELSE CHOOSE i \in hits : \A j \in hits : i <= j

\* The index of the first page whose Number equals the requested number
FindPage(pages, n) ==
    LET hits == {i \in 1..Len(pages) : pages[i].Number = n}
    IN  IF hits = {} THEN 0 ELSE CHOOSE i \in hits : \A j \in hits : i <= j

\* Page.GetImageURL, as the sequence of the URL's path segments.
\* filepath.SplitList splits on the list separator ':', so parts holds the
\* whole directory as its one element.
GetImageURL(p) ==
    <<<<"m", "a", "n", "g", "a", "-", "i", "m", "a", "g", "e", "s">>>>
        \o (IF p.MangaID = <<>> THEN <<<<"u", "n", "k", "n", "o", "w", "n">>>> ELSE <<p.MangaID>>)
        \o (IF p.ChapterID = <<>> THEN Dir(p.ImagePath) ELSE <<p.ChapterID>>)
        \o <<Base(p.ImagePath)>>

\* The chapter fields getChapter, listChapters and the admin handlers return
ChapterBody(c) ==
    [id |-> c.ID, mangaId |-> c.MangaID, number |-> c.Number, title |-> c.Title,
     releaseDate |-> c.ReleaseDate, pageCount |-> c.PageCount, volume |-> c.Volume,
     special |-> c.Special]

\* getChapter, once GetPages has returned gp: "Convert to response format"
getChapterPages(gp) ==
    IF gp.err # "" THEN ErrResp(StatusInternalServerError, "Failed to retrieve pages")
    ELSE Resp(StatusOK,
              [k \in DOMAIN ChapterBody(gp.chapter) \cup {"pages"} |->
                  IF k = "pages"
                  THEN Slice([j \in 1..Len(gp.pages) |->
                                 [number |-> gp.pages[j].Number,
                                  imageUrl |-> GetImageURL(gp.pages[j])]])
                  ELSE ChapterBody(gp.chapter)[k]])

\* getChapter, once ScanForChapters has returned sc: "Find the requested
\* chapter", "Get pages for this chapter"
getChapterIn(f, sc, num) ==
    LET i == FindChapter(sc.chapters, num)
    IN  IF sc.err # "" THEN ErrResp(StatusInternalServerError, "Failed to retrieve chapters")
        ELSE IF i = 0 THEN ErrResp(StatusNotFound, "Chapter not found")
        ELSE getChapterPages(GetPages(f, sc.chapters[i]))

\* getChapter, once GetMangaByID has returned g
getChapterOf(f, g, num) ==
    IF g.err # "" THEN MangaErrResp(g.err)
    ELSE getChapterIn(f, ScanForChapters(f, g.manga), num)

\* getChapter
GetChapterResp(f, id, chapterNumberStr) ==
    LET num == ParseFloat(chapterNumberStr)
    IN  IF ~num.ok THEN ErrResp(StatusBadRequest, "Invalid chapter number")
        ELSE getChapterOf(f, GetMangaByID(f, id), num)

\* The next chapter taken in the order of chapter numbers
mutNextChapterOf(chapters, chapterIndex, pageNumber, pages) ==
    LET higher == {k \in 1..Len(chapters) :
                      NumLess(chapters[chapterIndex].Number, chapters[k].Number)}
    IN  IF pageNumber >= Len(pages) /\ higher # {}
        THEN FormatFloatShortest(
                 chapters[CHOOSE k \in higher :
                              \A h \in higher :
                                  ~NumLess(chapters[h].Number, chapters[k].Number)].Number)
        ELSE <<>>

\* getPage: "Determine next and previous chapters", on the scanned order.
NextChapterOf(chapters, chapterIndex, pageNumber, pages) ==
    IF pageNumber >= Len(pages) /\ chapterIndex < Len(chapters)
    THEN FormatFloatShortest(chapters[chapterIndex + 1].Number)
    ELSE <<>>

PrevChapterOf(chapters, chapterIndex, pageNumber) ==
    IF pageNumber = 1 /\ chapterIndex > 1
    THEN FormatFloatShortest(chapters[chapterIndex - 1].Number)
    ELSE <<>>

\* getPage, once GetPages has returned gp: "Find the requested page",
\* "Determine next and previous chapters", "Create the response"
getPagePages(gp, chapters, chapterIndex, id, pageNumber) ==
    LET j    == FindPage(gp.pages, pageNumber)
        next == NextChapterOf(chapters, chapterIndex, pageNumber, gp.pages)
        prev == PrevChapterOf(chapters, chapterIndex, pageNumber)
    IN  IF gp.err # "" THEN ErrResp(StatusInternalServerError, "Failed to retrieve pages")
        ELSE IF j = 0 THEN ErrResp(StatusNotFound, "Page not found")
        ELSE Resp(StatusOK,
                  Restrict([imageUrl |-> GetImageURL(gp.pages[j]),
                            pageNumber |-> gp.pages[j].Number,
                            totalPages |-> Len(gp.pages),
                            chapterID |-> chapters[chapterIndex].ID,
                            mangaID |-> id,
                            nextPage |-> GetNextPageNumber(gp.pages[j]),
                            prevPage |-> GetPrevPageNumber(gp.pages[j]),
                            nextChapter |-> next, prevChapter |-> prev],
                           {"imageUrl", "pageNumber", "totalPages", "chapterID",
                            "mangaID", "nextPage", "prevPage"}
                               \cup (IF next # <<>> THEN {"nextChapter"} ELSE {})
                               \cup (IF prev # <<>> THEN {"prevChapter"} ELSE {})))

\* getPage, once ScanForChapters has returned sc: "Find the requested
\* chapter", "Get pages for this chapter"
getPageIn(f, sc, num, id, pageNumber) ==
    LET i == FindChapter(sc.chapters, num)
    IN  IF sc.err # "" THEN ErrResp(StatusInternalServerError, "Failed to retrieve chapters")
        ELSE IF i = 0 THEN ErrResp(StatusNotFound, "Chapter not found")
        ELSE getPagePages(GetPages(f, sc.chapters[i]), sc.chapters, i, id, pageNumber)

\* getPage, once GetMangaByID has returned g
getPageOf(f, g, num, id, pageNumber) ==
    IF g.err # "" THEN MangaErrResp(g.err)
    ELSE getPageIn(f, ScanForChapters(f, g.manga), num, id, pageNumber)

\* getPage
GetPageResp(f, id, chapterNumberStr, pageNumberStr) ==
    LET num == ParseFloat(chapterNumberStr)
        pn  == Atoi(pageNumberStr)
    IN  IF ~num.ok THEN ErrResp(StatusBadRequest, "Invalid chapter number")
        ELSE IF ~pn.ok THEN ErrResp(StatusBadRequest, "Invalid page number")
        ELSE getPageOf(f, GetMangaByID(f, id), num, id, pn.val)

\* GetCoverImageURL, as the sequence of the URL's path segments
GetCoverImageURL(m) ==
    <<<<"m", "a", "n", "g", "a", "-", "i", "m", "a", "g", "e", "s">>, m.ID,
      BaseName(m.CoverImage)>>

\* The series fields of a listManga entry
MangaListBody(m) ==
    [id |-> m.ID, title |-> m.Title, description |-> m.Description,
     coverImage |-> GetCoverImageURL(m), genres |-> m.Genres, author |-> m.Author,
     status |-> m.Status, chapterCount |-> m.ChapterCount]

\* listManga, once ScanForManga has returned scan
listMangaOf(scan) ==
    IF scan.err # "" THEN ErrResp(StatusInternalServerError, "Failed to retrieve manga list")
    ELSE Resp(StatusOK,
              Appended([i \in 1..Len(scan.mangas) |-> MangaListBody(scan.mangas[i])]))

\* listManga
ListMangaResp(f) == listMangaOf(ScanForManga(f))

\* getManga, once GetMangaByID has returned g
getMangaOf(g) ==
    IF g.err # "" THEN MangaErrResp(g.err)
    ELSE Resp(StatusOK,
              [id |-> g.manga.ID, title |-> g.manga.Title,
               description |-> g.manga.Description,
               coverImage |-> GetCoverImageURL(g.manga), genres |-> g.manga.Genres,
               author |-> g.manga.Author, artist |-> g.manga.Artist,
               status |-> g.manga.Status, publishedYear |-> g.manga.PublishedYear,
               lastUpdated |-> g.manga.LastUpdated, chapterCount |-> g.manga.ChapterCount,
               altTitles |-> g.manga.AltTitles])

\* getManga
GetMangaResp(f, id) == getMangaOf(GetMangaByID(f, id))

\* listChapters, once ScanForChapters has returned sc
listChaptersIn(sc) ==
    IF sc.err # "" THEN ErrResp(StatusInternalServerError, "Failed to retrieve chapters")
    ELSE Resp(StatusOK,
              Appended([i \in 1..Len(sc.chapters) |-> ChapterBody(sc.chapters[i])]))

\* listChapters, once GetMangaByID has returned g
listChaptersOf(f, g) ==
    IF g.err # "" THEN MangaErrResp(g.err)
    ELSE listChaptersIn(ScanForChapters(f, g.manga))

\* listChapters
ListChaptersResp(f, id) == listChaptersOf(f, GetMangaByID(f, id))

\* The series fields the admin handlers return
MangaAdminBody(m) ==
    [id |-> m.ID, title |-> m.Title, description |-> m.Description, author |-> m.Author,
     artist |-> m.Artist, genres |-> m.Genres, status |-> m.Status]

\* addManga: "Create the manga metadata"
NewManga(id, req) ==
    [ZeroManga EXCEPT !.ID = id, !.Title = req.Title, !.Description = req.Description,
                      !.Author = req.Author, !.Artist = req.Artist, !.Genres = req.Genres,
                      !.Status = req.Status, !.Path = Join(RootDir, id)]

\* updateManga: "Update fields if provided"
UpdatedManga(m, req) ==
    [m EXCEPT !.Title = IF req.Title # <<>> THEN req.Title ELSE @,
              !.Description = IF req.Description # "" THEN req.Description ELSE @,
              !.Author = IF req.Author # "" THEN req.Author ELSE @,
              !.Artist = IF req.Artist # "" THEN req.Artist ELSE @,
              !.Genres = IF Len(req.Genres.elems) > 0 THEN req.Genres ELSE @,
              !.Status = IF req.Status # "" THEN req.Status ELSE @]

\* The chapter fields the admin handlers return
ChapterAdminBody(c) ==
    [id |-> c.ID, mangaId |-> c.MangaID, number |-> c.Number, title |-> c.Title,
     releaseDate |-> c.ReleaseDate, volume |-> c.Volume, special |-> c.Special]

\* addChapter: "Create a chapter ID from the number"
ChapterIDOf(number) ==
    createSlug(<<"c", "h", "a", "p", "t", "e", "r", "-">> \o FormatFloat1(number))

\* addChapter: "Create the chapter metadata"
NewChapter(chapterID, chapterPath, mangaID, req) ==
    [ZeroChapter EXCEPT !.ID = chapterID, !.MangaID = mangaID, !.Number = req.Number,
                        !.Title = req.Title, !.ReleaseDate = Now, !.Path = chapterPath,
                        !.Volume = req.Volume, !.Special = req.Special]

\* updateChapter: "Update fields if provided"
UpdatedChapter(c, req) ==
    [c EXCEPT !.Title = IF req.Title # <<>> THEN req.Title ELSE @,
              !.Volume = req.Volume,
              !.Special = req.Special]

(***************************************************************************)
(* The names, titles and URL parameters of the model.                      *)
(***************************************************************************)
nOnePiece == <<"o", "n", "e", "-", "p", "i", "e", "c", "e">>

nNaruto == <<"n", "a", "r", "u", "t", "o">>

nOp == <<"o", "p">>

nMissing == <<"z", "z">>

nCh1 == <<"c", "h", "1">>

nCh2 == <<"c", "h", "2">>

nCh3 == <<"c", "h", "3">>

nExtras == <<"e", "x", "t", "r", "a", "s">>

nBonus == <<"b", "o", "n", "u", "s">>

nChNeg5 == <<"c", "h", "-", "5">>

nChapterHalf == <<"c", "h", "a", "p", "t", "e", "r", "-", "0", ".", "5">>

nChapter07 == <<"c", "h", "a", "p", "t", "e", "r", "-", "0", "7">>

nChapter1p5 == <<"C", "h", "a", "p", "t", "e", "r", "-", "1", ".", "5">>

nHidden == <<".", "h", "i", "d", "d", "e", "n">>

nChapter10 == <<"c", "h", "a", "p", "t", "e", "r", "-", "1", "0">>

f1jpg == <<"1", ".", "j", "p", "g">>

f2jpg == <<"2", ".", "j", "p", "g">>

f5png == <<"5", ".", "p", "n", "g">>

fAjpg == <<"a", ".", "j", "p", "g">>

f10jpg == <<"1", "0", ".", "j", "p", "g">>

fXjson == <<"x", ".", "j", "s", "o", "n">>

fSub == <<"s", "u", "b">>

fCover == <<"C", "o", "v", "e", "r", ".", "P", "N", "G">>

\* A coverImage that names the file by a path: art/c.png
fCoverInDir == <<"a", "r", "t", "/", "c", ".", "p", "n", "g">>

fNotes == <<"n", "o", "t", "e", "s", ".", "t", "x", "t">>

tOnePiece == <<"O", "n", "e", " ", "P", "i", "e", "c", "e", "!">>

tBang == <<"!", "!", "!">>

tNaruto == <<"N", "a", "r", "u", "t", "o">>

tRenamed == <<"R", "e", "n", "a", "m", "e", "d">>

s1 == <<"1">>

s2 == <<"2">>

s3 == <<"3">>

s1p5 == <<"1", ".", "5">>

sNeg5 == <<"-", "5">>

sX == <<"x">>

\* The hexadecimal literal of 2
sHex2 == <<"0", "x", "1", "p", "1">>

\* A literal beyond the largest float64
s1e999 == <<"1", "e", "9", "9", "9">>

s0 == <<"0">>

\* 1<<63, one above the largest int
s2e63 == MinIntDigits

s07 == <<"0", "7">>

sNaN == <<"N", "a", "N">>

nChapterSp3 == <<"C", "h", "a", "p", "t", "e", "r", " ", "3">>

nNull == <<"n", "u", "l", "l">>

n1e1 == <<"1", "e", "1">>

nVol2Ch4 == <<"v", "o", "l", "2", "-", "c", "h", "4">>

f3 == <<"3">>

fBJPG == <<"b", ".", "J", "P", "G">>

f03jpeg == <<"0", "3", ".", "j", "p", "e", "g">>

(***************************************************************************)
(* The libraries the server starts on: one series directory one-piece,     *)
(* with or without a sidecar, holding one of several chapter layouts, and  *)
(* optionally a second series naruto without any sidecar.                  *)
(***************************************************************************)
\* A tree from a set of <<path, node>> pairs
Tree(S) == [p \in {e[1] : e \in S} |-> (CHOOSE e \in S : e[1] = p)[2]]

\* A chapter directory at path with the given image files and extra entries
ChapterDir(path, readable, files, extra) ==
    {<<path, DirNode(readable)>>}
        \cup {<<Join(path, n), FileNode(Image)>> : n \in files}
        \cup {<<Join(path, e[1]), e[2]>> : e \in extra}

OnePiecePath == Join(RootDir, nOnePiece)

NarutoPath == Join(RootDir, nNaruto)

\* A hand-written series sidecar
SeriesDoc(id, title, altTitles, cover) ==
    Json([id |-> id, title |-> title, description |-> "pirates", author |-> "oda",
          coverImage |-> cover, genres |-> Slice(<<"adventure">>), status |-> "ongoing",
          lastUpdated |-> "2024-01-01T00:00:00Z", chapterCount |-> 3,
          altTitles |-> altTitles])

\* A hand-written chapter sidecar
ChapterDoc(id, mangaId, number) ==
    Json([id |-> id, mangaId |-> mangaId, number |-> Hundredths(number), title |-> id,
          releaseDate |-> "2024-01-01T00:00:00Z", pageCount |-> 7])

\* A hand-written sidecar of a special chapter that belongs to a volume
VolumeDoc(id, mangaId, number, volume) ==
    Json([id |-> id, mangaId |-> mangaId, number |-> Hundredths(number), title |-> id,
          releaseDate |-> "2024-01-01T00:00:00Z", pageCount |-> 7,
          volume |-> volume, special |-> TRUE])

SidecarKinds == {"none", "valid", "otherid", "emptyid", "notitle", "emptyalt", "garbage"}

\* The series sidecar of one-piece, by kind
SeriesSidecar(kind) ==
    IF kind = "none" THEN {}
    ELSE {<<Join(OnePiecePath, MetadataFileName),
            FileNode(CASE kind = "valid"    -> SeriesDoc(nOnePiece, tOnePiece, Slice(<<nOp>>), fCover)
                       [] kind = "otherid"  -> SeriesDoc(nOp, tOnePiece, Slice(<<nOp>>), fCover)
                       [] kind = "emptyid"  -> SeriesDoc(<<>>, tOnePiece, Slice(<<nOp>>), fCover)
                       [] kind = "notitle"  -> Json([id |-> nOnePiece])
                       [] kind = "emptyalt" -> SeriesDoc(nOnePiece, tOnePiece, Slice(<<>>), fCoverInDir)
                       [] OTHER             -> Garbage)>>}

Layouts == {"numbered", "unnamed", "oddnames", "sidecars", "unordered", "mixed", "locked"}

\* The chapter directories of one-piece, by layout
ChapterLayout(layout) ==
    LET at(n) == Join(OnePiecePath, n)
        meta(n, doc) == <<MetadataFileName, FileNode(doc)>>
    IN  CASE layout = "numbered" ->
                 ChapterDir(at(nCh1), TRUE, {f1jpg, f2jpg}, {})
                     \cup ChapterDir(at(nCh2), TRUE, {f1jpg, f2jpg, f5png}, {})
                     \cup ChapterDir(at(nCh3), TRUE, {f1jpg}, {})
          [] layout = "unnamed" ->
                 ChapterDir(at(nBonus), TRUE, {f1jpg}, {})
                     \cup ChapterDir(at(nExtras), TRUE, {f1jpg, f2jpg}, {})
          [] layout = "oddnames" ->
                 ChapterDir(at(nChNeg5), TRUE, {f1jpg}, {})
                     \cup ChapterDir(at(nChapterHalf), TRUE, {f1jpg}, {})
                     \cup ChapterDir(at(nChapter07), TRUE, {f1jpg}, {})
                     \cup ChapterDir(at(nChapter1p5), TRUE, {f1jpg, f2jpg}, {})
          [] layout = "sidecars" ->
                 ChapterDir(at(nCh1), TRUE, {f1jpg, f2jpg},
                            {meta(nCh1, ChapterDoc(nCh1, nOnePiece, 100))})
                     \cup ChapterDir(at(nCh2), TRUE, {f1jpg}, {meta(nCh2, Garbage)})
                     \cup ChapterDir(at(nCh3), TRUE, {f1jpg},
                                     {meta(nCh3, VolumeDoc(nCh3, nOnePiece, 300, 3))})
                     \cup ChapterDir(at(nHidden), TRUE, {f1jpg}, {})
          [] layout = "unordered" ->
                 ChapterDir(at(nCh1), TRUE, {f1jpg, f2jpg},
                            {meta(nCh1, ChapterDoc(nCh1, nOnePiece, 400))})
                     \cup ChapterDir(at(nCh2), TRUE, {f1jpg, f2jpg},
                                     {meta(nCh2, ChapterDoc(nCh2, nOnePiece, 100))})
                     \cup ChapterDir(at(nCh3), TRUE, {f1jpg}, {})
          [] layout = "mixed" ->
                 ChapterDir(at(nCh1), TRUE, {fAjpg, f1jpg, f10jpg, f2jpg},
                            {<<fXjson, FileNode(Garbage)>>, <<fSub, DirNode(TRUE)>>,
                             <<fNotes, FileNode(Garbage)>>})
                     \cup {<<at(fCover), FileNode(Image)>>, <<at(fNotes), FileNode(Garbage)>>}
          [] OTHER ->
                 ChapterDir(at(nCh1), FALSE, {f1jpg}, {})
                     \cup ChapterDir(at(nCh2), TRUE, {}, {})

\* The library: the root, one-piece, and naruto when withNaruto
Library(rootReadable, seriesReadable, kind, layout, withNaruto) ==
    Tree({<<RootDir, DirNode(rootReadable)>>, <<OnePiecePath, DirNode(seriesReadable)>>}
             \cup SeriesSidecar(kind)
             \cup ChapterLayout(layout)
             \cup (IF withNaruto
                   THEN {<<NarutoPath, DirNode(TRUE)>>}
                            \cup ChapterDir(Join(NarutoPath, nCh1), TRUE, {f1jpg}, {})
                   ELSE {}))

InitialLibraries ==
    {Library(TRUE, TRUE, kind, layout, FALSE) : kind \in SidecarKinds, layout \in Layouts}
        \cup {Library(TRUE, TRUE, kind, "numbered", TRUE) : kind \in SidecarKinds}
        \cup {Library(FALSE, TRUE, kind, "numbered", TRUE) : kind \in {"none", "valid"}}
        \cup {Library(TRUE, FALSE, kind, "numbered", FALSE) : kind \in {"none", "valid"}}
        \cup {Tree({<<RootDir, DirNode(TRUE)>>})}

(***************************************************************************)
(* The server.  net/http runs every request in a goroutine of its own, and *)
(* nothing in routes.go or in the engine takes a lock.  running[i] is the  *)
(* request in flight in slot i: the handler (or engine call) op, its       *)
(* parameters req, what the operating system does with its writes (io),    *)
(* its position pc and its locals: what GetMangaByID or ScanForManga       *)
(* returned (g), what ScanForChapters returned (sc), the sidecar path, the *)
(* record and the error of its SaveToJSON call (sv) and its response       *)
(* (resp); before is the tree as it was when the request arrived and since *)
(* what was writing then: the number of requests that write received so    *)
(* far, and whether one of them was in flight.                             *)
(*                                                                         *)
(* A handler takes one step for each call that reads or writes the tree,   *)
(* on the tree as it is at that moment: the os.Stat of GetMangaByID with   *)
(* the load that follows it, the ScanForManga GetMangaByID falls back to,  *)
(* ScanForChapters, GetPages, os.MkdirAll, and the two halves of           *)
(* os.WriteFile: the open with O_TRUNC, which creates the file or empties  *)
(* it, and the write, which puts the document at the start of the file as  *)
(* it is by then.  What the handler computes between two such calls        *)
(* belongs to the step of the call before it.  A scan is one step although *)
(* it reads directory after directory: each directory is visited once, no  *)
(* file is ever removed, and the directories another request writes to in  *)
(* its mkdir, open and write steps are one directory and its ancestors, so *)
(* what a scan returns next to one other writing request is what it        *)
(* returns on the tree as it is between two steps of that request.         *)
(*                                                                         *)
(* The number of slots of running is the number of requests the server is  *)
(* given at a time.  ops counts the admin requests received.               *)
(***************************************************************************)
MaxOps == 1

MaxInFlight == 2

Slots == 1..MaxInFlight

Idle == [op |-> "idle", req |-> <<>>, status |-> 0, body |-> <<>>, path |-> <<>>,
         rec |-> <<>>, err |-> ""]

\* The handler has not called SaveToJSON
NoSave == [path |-> <<>>, rec |-> <<>>, err |-> ""]

\* No request that writes has been received
NoWriter == [ops |-> 0, writing |-> FALSE]

Free == [op |-> "free", req |-> <<>>, io |-> "ok", pc |-> "free", g |-> <<>>, sc |-> <<>>,
         sv |-> NoSave, resp |-> <<>>, before |-> <<>>, since |-> NoWriter]

ReadOps == {"listManga", "getManga", "listChapters", "getChapter", "getPage"}

\* The engine calls that read: GetMangaByID and the two LoadFromJSON
ReadCalls == {"GetMangaByID", "LoadFromJSON", "Chapter.LoadFromJSON"}

ReqIDs == {nOnePiece, nOp, nMissing}

ReqChapterStrs == {s1, s2, s3, sNeg5, sX, sHex2, s1e999}

ReqPageStrs == {s1, s2, s3, sX, s2e63}

AddMangaReqs ==
    {[Title |-> t, Description |-> "", Author |-> "someone", Artist |-> "",
      Genres |-> NilSlice, Status |-> ""] : t \in {tOnePiece, tBang, tNaruto, <<>>}}

UpdateMangaReqs ==
    {[Title |-> tRenamed, Description |-> "", Author |-> "", Artist |-> "",
      Genres |-> NilSlice, Status |-> ""],
     [Title |-> <<>>, Description |-> "", Author |-> "kishimoto", Artist |-> "",
      Genres |-> Slice(<<"action">>), Status |-> ""]}

AddChapterReqs ==
    {[Number |-> Hundredths(n), Title |-> <<>>, Volume |-> 0, Special |-> FALSE] :
        n \in {100, 104, 115, 150, 0 - 100, 0}}

UpdateChapterReqs ==
    {[Title |-> tRenamed, Volume |-> 2, Special |-> TRUE],
     [Title |-> <<>>, Volume |-> 0, Special |-> FALSE]}

\* The GET requests
ReadRequests ==
    {[op |-> "listManga", req |-> <<>>]}
        \cup {[op |-> "getManga", req |-> [id |-> id]] : id \in ReqIDs}
        \cup {[op |-> "listChapters", req |-> [id |-> id]] : id \in ReqIDs}
        \cup {[op |-> "getChapter", req |-> [id |-> id, chapterNumber |-> ch]] :
                 id \in ReqIDs, ch \in ReqChapterStrs}
        \cup {[op |-> "getPage", req |-> [id |-> id, chapterNumber |-> ch, pageNumber |-> pg]] :
                 id \in ReqIDs, ch \in ReqChapterStrs, pg \in ReqPageStrs}

\* The POST and PUT requests, with their bound bodies
AdminRequests ==
    {[op |-> "addManga", req |-> [body |-> b]] : b \in AddMangaReqs}
        \cup {[op |-> "updateManga", req |-> [id |-> id, body |-> b]] :
                 id \in ReqIDs, b \in UpdateMangaReqs}
        \cup {[op |-> "addChapter", req |-> [id |-> id, body |-> b]] :
                 id \in ReqIDs, b \in AddChapterReqs}
        \cup {[op |-> "updateChapter", req |-> [id |-> id, chapterNumber |-> ch, body |-> b]] :
                 id \in ReqIDs, ch \in ReqChapterStrs, b \in UpdateChapterReqs}

\* The libraries the admin handlers are exercised on; the last one is what
\* an addChapter of number 1 leaves, with one image put in the directory
AdminLibraries ==
    {Library(TRUE, TRUE, "valid", "numbered", FALSE),
     Library(TRUE, TRUE, "none", "numbered", FALSE),
     Library(TRUE, TRUE, "none", "unnamed", FALSE),
     Library(TRUE, TRUE, "garbage", "numbered", TRUE),
     Library(TRUE, TRUE, "otherid", "sidecars", FALSE),
     Library(TRUE, TRUE, "emptyalt", "unordered", FALSE),
     Library(TRUE, TRUE, "valid", "oddnames", FALSE),
     Library(TRUE, TRUE, "valid", "locked", FALSE),
     Tree({<<RootDir, DirNode(TRUE)>>}),
     Tree({<<RootDir, DirNode(TRUE)>>, <<OnePiecePath, DirNode(TRUE)>>}
              \cup ChapterDir(Join(OnePiecePath, ChapterIDOf(One)), TRUE, {f1jpg},
                              {<<MetadataFileName,
                                 FileNode(ChapterDoc(ChapterIDOf(One), nOnePiece, 100))>>}))}

\* A request that writes is in flight: its handler, or its SaveToJSON call,
\* has not returned
Writing(run) ==
    \E j \in DOMAIN run :
        run[j].op \notin ReadOps \cup ReadCalls \cup {"free"} /\ run[j].pc # "done"

\* The goroutine of request q starts on the tree f
Started(q, io, f) ==
    [Free EXCEPT !.op = q.op, !.req = q.req, !.io = io, !.pc = "called", !.before = f,
                 !.since = [ops |-> ops, writing |-> Writing(running)]]

\* No request that writes was in flight while the request of r has been:
\* none was when it arrived and none has been received since, n being the
\* number received so far
Undisturbed(r, n) == ~r.since.writing /\ r.since.ops = n

\* The handler binds its parameters and its body: the 400 response of a
\* parameter that does not parse or of a body without a required field, or
\* no response
ParamError(op, req) ==
    CASE op \in {"getChapter", "getPage", "updateChapter"}
             /\ ~ParseFloat(req.chapterNumber).ok
             -> ErrResp(StatusBadRequest, "Invalid chapter number")
      [] op = "getPage" /\ ParseFloat(req.chapterNumber).ok /\ ~Atoi(req.pageNumber).ok
             -> ErrResp(StatusBadRequest, "Invalid page number")
      [] op = "addManga" /\ req.body.Title = <<>>
             -> ErrResp(StatusBadRequest, "Invalid request")
      [] op = "addChapter" /\ IsZero(req.body.Number)
             -> ErrResp(StatusBadRequest, "Invalid request")
      [] OTHER -> <<>>

\* The handler of r has its response
Done(r, resp) == [r EXCEPT !.pc = "done", !.resp = resp]

\* The id the handler of r looks up: addManga "Create a slug ID from the
\* title", the others c.Param("id")
LookupID(r) == IF r.op = "addManga" THEN createSlug(r.req.body.Title) ELSE r.req.id

\* GetMangaByID has returned g to the handler of r
Looked(r, g) ==
    IF r.op = "getManga" THEN Done([r EXCEPT !.g = g], getMangaOf(g))
    ELSE IF r.op = "addManga"
    THEN IF g.err = ""
         THEN Done([r EXCEPT !.g = g],
                   ErrResp(StatusConflict, "Manga with this ID already exists"))
         ELSE [r EXCEPT !.pc = "mkdir", !.g = g]
    ELSE IF g.err # "" THEN Done([r EXCEPT !.g = g], MangaErrResp(g.err))
    ELSE IF r.op = "updateManga" THEN [r EXCEPT !.pc = "save", !.g = g]
    ELSE IF r.op = "addChapter" THEN [r EXCEPT !.pc = "mkdir", !.g = g]
    ELSE [r EXCEPT !.pc = "looked", !.g = g]

\* ScanForChapters has returned sc to the handler of r
Scanned(r, sc) ==
    IF r.op = "listChapters" THEN Done([r EXCEPT !.sc = sc], listChaptersIn(sc))
    ELSE IF r.op # "updateChapter" THEN [r EXCEPT !.pc = "scanned", !.sc = sc]
    ELSE IF sc.err # ""
    THEN Done([r EXCEPT !.sc = sc],
              ErrResp(StatusInternalServerError, "Failed to retrieve chapters"))
    ELSE IF FindChapter(sc.chapters, ParseFloat(r.req.chapterNumber)) = 0
    THEN Done([r EXCEPT !.sc = sc], ErrResp(StatusNotFound, "Chapter not found"))
    ELSE [r EXCEPT !.pc = "save", !.sc = sc]

\* GetMangaByID in the handler of r, in two steps.  The first is os.Stat of
\* root/id/metadata.json, with LoadFromJSON when the file is there (no file
\* is ever removed, so the load finds what a load at the moment of the stat
\* of a later tree finds); when the file is not there the handler goes on
\* to ScanForManga (pc "missed"), which is the second step and reads the
\* tree as it is by then.
Resolve(f, r) ==
    IF r.pc = "missed" THEN Looked(r, FindManga(ScanForManga(f), LookupID(r)))
    ELSE IF Stat(f, Join(Join(RootDir, LookupID(r)), MetadataFileName))
    THEN Looked(r, LoadManga(f, Join(Join(RootDir, LookupID(r)), MetadataFileName)))
    ELSE [r EXCEPT !.pc = "missed"]

\* A handler that looks the series up before it parses its parameters
mutChecked(r, pe, next) ==
    IF next.pc = "done" THEN next ELSE IF pe # <<>> THEN Done(r, pe) ELSE next

\* ShouldBindJSON and the parameters have been parsed with the error
\* response pe (<<>> when there is none); next is the handler afterwards
Checked(r, pe, next) == IF pe # <<>> THEN Done(r, pe) ELSE next

\* The first steps of a handler that starts with GetMangaByID: its
\* parameters and the two steps of GetMangaByID
FirstSteps(f, r) ==
    IF r.pc = "called" THEN Checked(r, ParamError(r.op, r.req), Resolve(f, r))
    ELSE Resolve(f, r)

\* ScanForManga has returned scan to listManga
MangaListed(r, scan) == Done([r EXCEPT !.g = scan], listMangaOf(scan))

\* A step of the request of r that leaves the tree f as it is: the calls of
\* the step are os.Stat, os.ReadDir and os.ReadFile
Reading(f, r) == [fs |-> f, r |-> r]

\* listManga, its one step on the tree f: ScanForManga
listMangaStep(f, r) == Reading(f, MangaListed(r, ScanForManga(f)))

\* The next step of getManga on the tree f: one of the two of GetMangaByID
getMangaStep(f, r) == Reading(f, Resolve(f, r))

\* The next step of listChapters on the tree f: GetMangaByID, then
\* ScanForChapters
listChaptersStep(f, r) ==
    IF r.pc = "looked" THEN Reading(f, Scanned(r, ScanForChapters(f, r.g.manga)))
    ELSE Reading(f, Resolve(f, r))

\* A getChapter whose GetPages, having counted the pages, saves the count in
\* the sidecar of the chapter
mutGetChapterStep(f, r) ==
    IF r.pc \in {"called", "missed"} THEN Reading(f, FirstSteps(f, r))
    ELSE IF r.pc = "looked" THEN Reading(f, Scanned(r, ScanForChapters(f, r.g.manga)))
    ELSE LET i  == FindChapter(r.sc.chapters, ParseFloat(r.req.chapterNumber))
             gp == GetPages(f, r.sc.chapters[i])
         IN  [fs |-> IF r.sc.err = "" /\ i # 0 /\ gp.err = ""
                     THEN WriteFile(f, Join(r.sc.chapters[i].Path, MetadataFileName),
                                    Json(MarshalChapter([r.sc.chapters[i]
                                                            EXCEPT !.PageCount = Len(gp.pages)])),
                                    "ok").fs
                     ELSE f,
              r |-> Done(r, getChapterIn(f, r.sc, ParseFloat(r.req.chapterNumber)))]

\* The next step of getChapter on the tree f: the chapter number and
\* GetMangaByID, then ScanForChapters, then the chapter and GetPages
getChapterStep(f, r) ==
    IF r.pc \in {"called", "missed"} THEN Reading(f, FirstSteps(f, r))
    ELSE IF r.pc = "looked" THEN Reading(f, Scanned(r, ScanForChapters(f, r.g.manga)))
    ELSE Reading(f, Done(r, getChapterIn(f, r.sc, ParseFloat(r.req.chapterNumber))))

\* The next step of getPage on the tree f: the two numbers and
\* GetMangaByID, then ScanForChapters, then the chapter, GetPages and the
\* page
getPageStep(f, r) ==
    IF r.pc \in {"called", "missed"} THEN Reading(f, FirstSteps(f, r))
    ELSE IF r.pc = "looked" THEN Reading(f, Scanned(r, ScanForChapters(f, r.g.manga)))
    ELSE Reading(f, Done(r, getPageIn(f, r.sc, ParseFloat(r.req.chapterNumber), r.req.id,
                                      Atoi(r.req.pageNumber).val)))

\* The directory the handler of r makes: addManga "Create the manga
\* directory", addChapter "Create the chapter directory"
MkdirPath(r) ==
    IF r.op = "addManga" THEN Join(RootDir, LookupID(r))
    ELSE Join(r.g.manga.Path, ChapterIDOf(r.req.body.Number))

\* An updateManga that saves the fields of its body alone, not the series
\* it looked up
mutSaving(r) ==
    CASE r.op = "SaveToJSON" -> [rec |-> r.req.rec, path |-> r.req.path]
      [] r.op = "addManga" ->
             [rec |-> NewManga(LookupID(r), r.req.body),
              path |-> Join(MkdirPath(r), MetadataFileName)]
      [] r.op = "updateManga" ->
             [rec |-> UpdatedManga([ZeroManga EXCEPT !.ID = r.g.manga.ID,
                                                     !.Path = r.g.manga.Path], r.req.body),
              path |-> Join(r.g.manga.Path, MetadataFileName)]
      [] r.op = "addChapter" ->
             [rec |-> NewChapter(ChapterIDOf(r.req.body.Number), MkdirPath(r), r.req.id,
                                 r.req.body),
              path |-> Join(MkdirPath(r), MetadataFileName)]
      [] OTHER ->
             LET i == FindChapter(r.sc.chapters, ParseFloat(r.req.chapterNumber))
             IN  [rec |-> UpdatedChapter(r.sc.chapters[i], r.req.body),
                  path |-> Join(r.sc.chapters[i].Path, MetadataFileName)]

\* What the request of r saves and where: a SaveToJSON call its record at
\* its path; addManga the new series, at the sidecar of the directory it
\* made; updateManga the series it looked up, with the fields of the body,
\* at the sidecar of the series' directory; addChapter the new chapter, at
\* the sidecar of the directory it made; updateChapter the chapter it found
\* in its scan, with the fields of the body, at the sidecar of the
\* chapter's directory
Saving(r) ==
    CASE r.op = "SaveToJSON" -> [rec |-> r.req.rec, path |-> r.req.path]
      [] r.op = "addManga" ->
             [rec |-> NewManga(LookupID(r), r.req.body),
              path |-> Join(MkdirPath(r), MetadataFileName)]
      [] r.op = "updateManga" ->
             [rec |-> UpdatedManga(r.g.manga, r.req.body),
              path |-> Join(r.g.manga.Path, MetadataFileName)]
      [] r.op = "addChapter" ->
             [rec |-> NewChapter(ChapterIDOf(r.req.body.Number), MkdirPath(r), r.req.id,
                                 r.req.body),
              path |-> Join(MkdirPath(r), MetadataFileName)]
      [] OTHER ->
             LET i == FindChapter(r.sc.chapters, ParseFloat(r.req.chapterNumber))
             IN  [rec |-> UpdatedChapter(r.sc.chapters[i], r.req.body),
                  path |-> Join(r.sc.chapters[i].Path, MetadataFileName)]

\* The document SaveToJSON writes: json.MarshalIndent of the series or of
\* the chapter
Document(op, rec) ==
    IF op \in {"addChapter", "updateChapter"} THEN Json(MarshalChapter(rec))
    ELSE Json(MarshalManga(rec))

\* SaveToJSON of sv has returned err to the request of r, which answers resp
Returned(r, sv, err, resp) ==
    Done([r EXCEPT !.sv = [path |-> sv.path, rec |-> sv.rec, err |-> err]], resp)

\* SaveToJSON of sv has returned err to the request of r: "Save metadata"
Saved(r, sv, err) ==
    CASE r.op = "SaveToJSON" -> Returned(r, sv, err, err)
      [] err # "" /\ r.op \in {"addManga", "updateManga"} ->
             Returned(r, sv, err,
                      ErrResp(StatusInternalServerError, "Failed to save manga metadata"))
      [] err # "" /\ r.op \in {"addChapter", "updateChapter"} ->
             Returned(r, sv, err,
                      ErrResp(StatusInternalServerError, "Failed to save chapter metadata"))
      [] r.op = "addManga" -> Returned(r, sv, err, Resp(StatusCreated, MangaAdminBody(sv.rec)))
      [] r.op = "updateManga" -> Returned(r, sv, err, Resp(StatusOK, MangaAdminBody(sv.rec)))
      [] r.op = "addChapter" ->
             Returned(r, sv, err, Resp(StatusCreated, ChapterAdminBody(sv.rec)))
      [] OTHER -> Returned(r, sv, err, Resp(StatusOK, ChapterAdminBody(sv.rec)))

\* os.MkdirAll has returned mk to the handler of r, which answers msg when
\* it failed
MadeDir(f, r, mk, msg) ==
    IF mk.err # "" THEN Reading(f, Done(r, ErrResp(StatusInternalServerError, msg)))
    ELSE [fs |-> mk.fs, r |-> [r EXCEPT !.pc = "save"]]

\* SaveToJSON of sv for the request of r: os.WriteFile has opened the
\* file, with result o
Opened(f, r, sv, o) ==
    IF r.io = "openfail" \/ o.err # "" THEN Reading(f, Saved(r, sv, "MetadataError"))
    ELSE [fs |-> o.fs, r |-> [r EXCEPT !.pc = "opened"]]

\* SaveToJSON of sv for the request of r, in two steps on the tree f: the
\* open of os.WriteFile, then its write, after which SaveToJSON returns;
\* what the step can leave
SaveTo(f, r, sv) ==
    IF r.pc # "opened" THEN {Opened(f, r, sv, OpenTrunc(f, sv.path))}
    ELSE IF r.io = "writefail" THEN {Reading(f, Saved(r, sv, "MetadataError"))}
    ELSE {[fs |-> t, r |-> Saved(r, sv, "")] :
             t \in WriteAll(f, sv.path, Document(r.op, sv.rec))}

\* The next step of the SaveToJSON of the request of r on the tree f
SaveStep(f, r) == SaveTo(f, r, Saving(r))

\* The next step of addManga on the tree f: the body and GetMangaByID,
\* os.MkdirAll, SaveToJSON; what the step can leave
addMangaStep(f, r) ==
    IF r.pc \in {"called", "missed"} THEN {Reading(f, FirstSteps(f, r))}
    ELSE IF r.pc = "mkdir"
    THEN {MadeDir(f, r, MkdirAll(f, MkdirPath(r), r.io), "Failed to create manga directory")}
    ELSE SaveStep(f, r)

\* The next step of updateManga on the tree f: GetMangaByID, SaveToJSON;
\* what the step can leave
updateMangaStep(f, r) ==
    IF r.pc \in {"called", "missed"} THEN {Reading(f, Resolve(f, r))}
    ELSE SaveStep(f, r)

\* The next step of addChapter on the tree f: the body and GetMangaByID,
\* os.MkdirAll, SaveToJSON; what the step can leave
addChapterStep(f, r) ==
    IF r.pc \in {"called", "missed"} THEN {Reading(f, FirstSteps(f, r))}
    ELSE IF r.pc = "mkdir"
    THEN {MadeDir(f, r, MkdirAll(f, MkdirPath(r), r.io),
                  "Failed to create chapter directory")}
    ELSE SaveStep(f, r)

\* The next step of updateChapter on the tree f: the chapter number and
\* GetMangaByID, ScanForChapters, SaveToJSON; what the step can leave
updateChapterStep(f, r) ==
    IF r.pc \in {"called", "missed"} THEN {Reading(f, FirstSteps(f, r))}
    ELSE IF r.pc = "looked"
    THEN {Reading(f, Scanned(r, ScanForChapters(f, r.g.manga)))}
    ELSE SaveStep(f, r)

\* The request in slot i takes the step s
Takes(i, s) ==
    /\ running[i].pc \notin {"free", "done"}
    /\ fs' = s.fs
    /\ running' = [running EXCEPT ![i] = s.r]
    /\ UNCHANGED <<last, ops, browser>>

\* GET /api/manga
listManga ==
    \E i \in DOMAIN running :
        /\ running[i].op = "listManga"
        /\ Takes(i, listMangaStep(fs, running[i]))

\* GET /api/manga/:id
getManga ==
    \E i \in DOMAIN running :
        /\ running[i].op = "getManga"
        /\ Takes(i, getMangaStep(fs, running[i]))

\* GET /api/manga/:id/chapters
listChapters ==
    \E i \in DOMAIN running :
        /\ running[i].op = "listChapters"
        /\ Takes(i, listChaptersStep(fs, running[i]))

\* GET /api/manga/:id/chapters/:chapterNumber
getChapter ==
    \E i \in DOMAIN running :
        /\ running[i].op = "getChapter"
        /\ Takes(i, getChapterStep(fs, running[i]))

\* GET /api/manga/:id/chapters/:chapterNumber/pages/:pageNumber
getPage ==
    \E i \in DOMAIN running :
        /\ running[i].op = "getPage"
        /\ Takes(i, getPageStep(fs, running[i]))

\* POST /api/admin/manga
addManga ==
    \E i \in DOMAIN running :
        /\ running[i].op = "addManga"
        /\ running[i].pc # "done"
        /\ \E s \in addMangaStep(fs, running[i]) : Takes(i, s)

\* PUT /api/admin/manga/:id
updateManga ==
    \E i \in DOMAIN running :
        /\ running[i].op = "updateManga"
        /\ running[i].pc # "done"
        /\ \E s \in updateMangaStep(fs, running[i]) : Takes(i, s)

\* POST /api/admin/manga/:id/chapters
addChapter ==
    \E i \in DOMAIN running :
        /\ running[i].op = "addChapter"
        /\ running[i].pc # "done"
        /\ \E s \in addChapterStep(fs, running[i]) : Takes(i, s)

\* PUT /api/admin/manga/:id/chapters/:chapterNumber
updateChapter ==
    \E i \in DOMAIN running :
        /\ running[i].op = "updateChapter"
        /\ running[i].pc # "done"
        /\ \E s \in updateChapterStep(fs, running[i]) : Takes(i, s)

\* The request q arrives and its goroutine starts in the first free slot
Receives(q, io) ==
    \E i \in DOMAIN running :
        /\ last.op = "idle"
        /\ running[i].op = "free"
        /\ \A j \in 1..(i - 1) : running[j].op # "free"
        /\ q.op \notin ReadOps => ops < MaxOps
        /\ running' = [running EXCEPT ![i] = Started(q, io, fs)]
        /\ ops' = IF q.op \in ReadOps THEN ops ELSE ops + 1
        /\ UNCHANGED <<fs, last, browser>>

\* A request arrives
receive ==
    \E q \in ReadRequests \cup AdminRequests, io \in IOOutcomes :
        /\ q.op \in ReadOps => io = "ok"
        /\ Receives(q, io)

\* The response is written and the goroutine ends; last is the exchange as
\* the client has it
reply ==
    \E i \in DOMAIN running :
        /\ running[i].pc = "done"
        /\ last.op = "idle"
        /\ last' = [op |-> running[i].op, req |-> running[i].req,
                    status |-> running[i].resp.status, body |-> running[i].resp.body,
                    path |-> running[i].sv.path, rec |-> running[i].sv.rec,
                    err |-> running[i].sv.err, before |-> running[i].before]
        /\ running' = [running EXCEPT ![i] = Free]
        /\ UNCHANGED <<fs, ops, browser>>

\* The response is written and the goroutine ends
respond ==
    \E i \in Slots :
        /\ running[i].pc = "done"
        /\ running' = [running EXCEPT ![i] = Free]
        /\ UNCHANGED <<fs, last, ops, browser>>

\* The client has looked at the response
Deliver ==
    /\ last.op # "idle"
    /\ last' = Idle
    /\ UNCHANGED <<fs, ops, running, browser>>

\* The server given one request at a time
Init ==
    /\ fs \in AdminLibraries
    /\ last = Idle
    /\ ops = 0
    /\ running = <<Free>>
    /\ browser = NoBrowser

Next ==
    \/ receive
    \/ listManga
    \/ getManga
    \/ listChapters
    \/ getChapter
    \/ getPage
    \/ addManga
    \/ updateManga
    \/ addChapter
    \/ updateChapter
    \/ reply
    \/ Deliver

Spec == Init /\ [][Next]_vars

(***************************************************************************)
(* The read handlers alone, on every initial library.                      *)
(***************************************************************************)
InitRead ==
    /\ fs \in InitialLibraries
    /\ last = Idle
    /\ ops = 0
    /\ running = <<Free>>
    /\ browser = NoBrowser

\* A GET request arrives
receiveGet ==
    \E q \in ReadRequests :
        /\ q.op \in ReadOps
        /\ Receives(q, "ok")

NextRead ==
    \/ receiveGet
    \/ listManga
    \/ getManga
    \/ listChapters
    \/ getChapter
    \/ getPage
    \/ reply
    \/ Deliver

SpecRead == InitRead /\ [][NextRead]_vars

(***************************************************************************)
(* The engine on one chapter directory: every directory name of DirNames   *)
(* holding up to MaxFiles of the entries of PageFileNames, and optionally  *)
(* a subdirectory; and a series with a chapter directory that cannot be    *)
(* read.                                                                   *)
(***************************************************************************)
MaxFiles == 3

DirNames == {nCh1, nCh2, nExtras, nChNeg5, nChapterHalf, nChapter07, nChapter1p5,
             nChapter10, nChapterSp3, nNull, n1e1, nVol2Ch4}

PageFileNames == {f1jpg, f2jpg, f5png, fAjpg, f10jpg, f03jpeg, fBJPG, f3, fXjson,
                  MetadataFileName}

DirLibraries ==
    {Tree({<<RootDir, DirNode(TRUE)>>, <<OnePiecePath, DirNode(TRUE)>>}
              \cup ChapterDir(Join(OnePiecePath, d), TRUE, {}, 
                              {<<n, FileNode(IF n = MetadataFileName
                                             THEN ChapterDoc(d, nOnePiece, 200)
                                             ELSE IF isMetadataFile(n) THEN Garbage
                                             ELSE Image)>> : n \in files}
                                  \cup (IF sub THEN {<<fSub, DirNode(TRUE)>>} ELSE {}))) :
        d \in DirNames,
        files \in {F \in SUBSET PageFileNames : Cardinality(F) <= MaxFiles},
        sub \in BOOLEAN}
        \cup {Library(TRUE, TRUE, "none", "locked", FALSE)}

InitDir ==
    /\ fs \in DirLibraries
    /\ last = Idle
    /\ ops = 0
    /\ running = <<>>
    /\ browser = NoBrowser

\* The chapter directories of one-piece, as ScanForChapters visits them
ChapterPaths(f) == {p \in DOMAIN f : Dir(p) = OnePiecePath /\ f[p].kind = "dir"}

\* An engine call returns
Returns(op, req, result, rec, err) ==
    /\ last.op = "idle"
    /\ last' = [op |-> op, req |-> req, status |-> 0, body |-> result, path |-> <<>>,
                rec |-> rec, err |-> err]
    /\ UNCHANGED <<fs, ops, running, browser>>

\* CreateChapterFromDirectory on a chapter directory
inferChapter ==
    \E p \in {q \in ChapterPaths(fs) : ~Stat(fs, Join(q, MetadataFileName))} :
        LET r == CreateChapterFromDirectory(fs, nOnePiece, p)
        IN  Returns("CreateChapterFromDirectory", [mangaID |-> nOnePiece, dirPath |-> p],
                    <<>>, r.chapter, r.err)

\* GetPages on one of the chapters ScanForChapters has returned
listPagesOf(chapters) ==
    \E i \in 1..Len(chapters) :
        LET r == GetPages(fs, chapters[i])
        IN  Returns("GetPages", [chapter |-> chapters[i]], r.pages, r.chapter, r.err)

\* GetPages on a chapter as ScanForChapters returns it
listPages ==
    listPagesOf(ScanForChapters(fs, CreateMangaFromDirectory(fs, OnePiecePath).manga).chapters)

NextDir ==
    \/ inferChapter
    \/ listPages
    \/ Deliver

SpecDir == InitDir /\ [][NextDir]_vars

(***************************************************************************)
(* The record store on sidecars: SaveToJSON of a series record at          *)
(* root/ID/metadata.json, GetMangaByID, LoadFromJSON of the sidecars the   *)
(* tree holds, and a sidecar moved from one directory to another.  No call *)
(* takes a lock: each runs in a goroutine of its own, a file system call   *)
(* at a time, next to the others.  A save is the open of os.WriteFile and  *)
(* then its write; a lookup is os.Stat, then os.ReadFile, and without the  *)
(* file os.ReadDir, then os.Stat and os.ReadFile for each directory; a     *)
(* load is one os.ReadFile; the move is one rename.                        *)
(***************************************************************************)
\* The series records saved: with and without the optional fields, with
\* nil, empty and non-empty lists of genres and of alternate titles, and
\* carrying no Path, the Path of one-piece or the root.
StoreRecords ==
    {[ZeroManga EXCEPT !.ID = id, !.Title = tOnePiece, !.Description = "pirates",
                       !.Author = "oda", !.Artist = opt.artist, !.Genres = opt.genres,
                       !.Status = "ongoing", !.PublishedYear = opt.year,
                       !.LastUpdated = "2024-01-01T00:00:00Z", !.ChapterCount = 3,
                       !.AltTitles = opt.altTitles, !.Path = path] :
        id \in {nOnePiece, nNaruto, <<>>},
        opt \in {[artist |-> "", year |-> 0, genres |-> NilSlice, altTitles |-> NilSlice],
                 [artist |-> "oda", year |-> 1997, genres |-> Slice(<<>>),
                  altTitles |-> Slice(<<>>)],
                 [artist |-> "oda", year |-> 1997, genres |-> Slice(<<"adventure">>),
                  altTitles |-> Slice(<<nOp>>)]},
        path \in {<<>>, OnePiecePath, RootDir}}

StoreLibraries ==
    {Library(TRUE, TRUE, "none", "numbered", FALSE),
     Library(TRUE, TRUE, "valid", "numbered", TRUE),
     Library(TRUE, TRUE, "garbage", "numbered", TRUE),
     Library(TRUE, TRUE, "otherid", "sidecars", FALSE),
     Tree({<<RootDir, DirNode(TRUE)>>, <<OnePiecePath, DirNode(TRUE)>>,
           <<NarutoPath, DirNode(TRUE)>>,
           <<Join(OnePiecePath, MetadataFileName),
             FileNode(Json([id |-> nOnePiece, title |-> tOnePiece, path |-> NarutoPath]))>>})}

InitStore ==
    /\ fs \in StoreLibraries
    /\ last = Idle
    /\ ops = 0
    /\ running = [i \in Slots |-> Free]
    /\ browser = NoBrowser

\* A goroutine can be started
HasFree(run) == \E k \in DOMAIN run : run[k].op = "free"

\* The slot a call starts in: the first that is free
FreeSlot(run) ==
    CHOOSE k \in DOMAIN run : run[k].op = "free" /\ \A h \in DOMAIN run : run[h].op = "free" => k <= h

\* A call starts and takes its first step s; n calls that write have then
\* been made.  One call that reads is made at a time.
Begins(s, n) ==
    /\ HasFree(running)
    /\ s.r.op \in ReadCalls => \A k \in DOMAIN running : running[k].op \notin ReadCalls
    /\ fs' = s.fs
    /\ running' = [running EXCEPT ![FreeSlot(running)] = s.r]
    /\ ops' = n
    /\ UNCHANGED <<last, browser>>

\* s.SaveToJSON(root/s.ID/metadata.json), a step at a time: the call with
\* the open of os.WriteFile, then the write, after which it returns
saveSeries ==
    \/ \E s \in StoreRecords, io \in {"ok", "openfail", "writefail"} :
           /\ ops < MaxOps
           /\ \E st \in SaveStep(fs, Started([op |-> "SaveToJSON",
                                              req |-> [rec |-> s,
                                                       path |-> Join(Join(RootDir, s.ID),
                                                                     MetadataFileName)]],
                                             io, fs)) :
                  Begins(st, ops + 1)
    \/ \E i \in DOMAIN running :
           /\ running[i].op = "SaveToJSON"
           /\ running[i].pc # "done"
           /\ \E st \in SaveStep(fs, running[i]) : Takes(i, st)

\* The engine call of r has returned g, a record or an error
Got(r, g) == Done([r EXCEPT !.g = g], g.err)

\* The entries of os.ReadDir(path) that are directories: dir.IsDir()
DirEntries(f, path) == SelectSeq(ReadDir(f, path), LAMBDA n : IsDirAt(f, Join(path, n)))

\* ScanForChapters: the entries of the series directory the loop does not
\* skip; none when the directory cannot be read
ChapterEntries(f, path) ==
    IF ~CanReadDir(f, path) THEN <<>>
    ELSE SelectSeq(DirEntries(f, path), LAMBDA n : ~HasPrefix(n, <<".">>))

\* The scan of GetMangaByID before its first directory
NoScan == [names |-> <<>>, mangas |-> <<>>, manga |-> <<>>, entries |-> <<>>, chapters |-> <<>>]

\* ScanForManga in the call of r goes on to the next directory of sc; after
\* the last one GetMangaByID returns the first series with the ID
ScanOn(r, sc) ==
    IF Len(sc.names) = 0
    THEN Got([r EXCEPT !.sc = sc], FindManga([err |-> "", mangas |-> sc.mangas], r.req.id))
    ELSE [r EXCEPT !.pc = "scan", !.sc = sc]

\* The directory ScanForManga is at has given x, a record or an error
SeriesDone(r, x) ==
    ScanOn(r, [NoScan EXCEPT !.names = Tail(r.sc.names),
                             !.mangas = AppendManga(r.sc.mangas, x)])

\* ScanForChapters in CreateMangaFromDirectory goes on to the next entry of
\* sc; after the last one the chapters are counted and the record returned
CountOn(r, sc) ==
    IF Len(sc.entries) = 0
    THEN SeriesDone(r, [err |-> "",
                        manga |-> [sc.manga EXCEPT !.ChapterCount = Len(sc.chapters)]])
    ELSE [r EXCEPT !.pc = "chapter", !.sc = sc]

\* The chapter directory ScanForChapters is at has given x
ChapterDone(r, x) ==
    CountOn(r, [r.sc EXCEPT !.entries = Tail(@), !.chapters = AppendChapter(@, x)])

\* A GetMangaByID that falls back to the scan when the sidecar does not load
mutGetMangaByIDStep(f, r) ==
    LET sidecar == Join(Join(RootDir, r.req.id), MetadataFileName)
        series  == IF r.pc \in {"scan", "load", "chapter", "chload"}
                   THEN Join(RootDir, r.sc.names[1]) ELSE <<>>
        chapter == IF r.pc \in {"chapter", "chload"}
                   THEN Join(series, r.sc.entries[1]) ELSE <<>>
    IN  CASE r.pc = "called" ->
                 [r EXCEPT !.pc = IF Stat(f, sidecar) THEN "found" ELSE "missed"]
          [] r.pc = "found" ->
                 IF LoadManga(f, sidecar).err = "" THEN Got(r, LoadManga(f, sidecar))
                 ELSE [r EXCEPT !.pc = "missed"]
          [] r.pc = "missed" ->
                 IF ~CanReadDir(f, RootDir) THEN Got(r, FindManga(ScanForManga(f), r.req.id))
                 ELSE ScanOn(r, [NoScan EXCEPT !.names = DirEntries(f, RootDir)])
          [] r.pc = "scan" ->
                 IF Stat(f, Join(series, MetadataFileName)) THEN [r EXCEPT !.pc = "load"]
                 ELSE CountOn(r, [r.sc EXCEPT !.manga = InferredManga(f, series),
                                              !.entries = ChapterEntries(f, series)])
          [] r.pc = "load" -> SeriesDone(r, LoadManga(f, Join(series, MetadataFileName)))
          [] r.pc = "chapter" ->
                 IF Stat(f, Join(chapter, MetadataFileName)) THEN [r EXCEPT !.pc = "chload"]
                 ELSE ChapterDone(r, CreateChapterFromDirectory(f, r.sc.manga.ID, chapter))
          [] OTHER -> ChapterDone(r, LoadChapter(f, Join(chapter, MetadataFileName)))

\* The next file system call of the GetMangaByID of r on the tree f, with
\* what the call does until the one after it:
\*   "called"   os.Stat of root/id/metadata.json;
\*   "found"    the os.ReadFile of LoadFromJSON on that file, and the return;
\*   "missed"   ScanForManga: os.ReadDir of the root;
\*   "scan"     os.Stat of the sidecar of the directory the loop is at, and
\*              without one CreateMangaFromDirectory up to the os.ReadDir
\*              of ScanForChapters (the two os.ReadDir of the series
\*              directory see the same images and directories: no call
\*              made of the store adds or removes one);
\*   "load"     the os.ReadFile of LoadFromJSON on that sidecar;
\*   "chapter"  os.Stat of the sidecar of the chapter directory the loop of
\*              ScanForChapters is at, and without one
\*              CreateChapterFromDirectory;
\*   "chload"   the os.ReadFile of Chapter.LoadFromJSON on that sidecar.
GetMangaByIDStep(f, r) ==
    LET sidecar == Join(Join(RootDir, r.req.id), MetadataFileName)
        series  == IF r.pc \in {"scan", "load", "chapter", "chload"}
                   THEN Join(RootDir, r.sc.names[1]) ELSE <<>>
        chapter == IF r.pc \in {"chapter", "chload"}
                   THEN Join(series, r.sc.entries[1]) ELSE <<>>
    IN  CASE r.pc = "called" ->
                 [r EXCEPT !.pc = IF Stat(f, sidecar) THEN "found" ELSE "missed"]
          [] r.pc = "found" -> Got(r, LoadManga(f, sidecar))
          [] r.pc = "missed" ->
                 IF ~CanReadDir(f, RootDir) THEN Got(r, FindManga(ScanForManga(f), r.req.id))
                 ELSE ScanOn(r, [NoScan EXCEPT !.names = DirEntries(f, RootDir)])
          [] r.pc = "scan" ->
                 IF Stat(f, Join(series, MetadataFileName)) THEN [r EXCEPT !.pc = "load"]
                 ELSE CountOn(r, [r.sc EXCEPT !.manga = InferredManga(f, series),
                                              !.entries = ChapterEntries(f, series)])
          [] r.pc = "load" -> SeriesDone(r, LoadManga(f, Join(series, MetadataFileName)))
          [] r.pc = "chapter" ->
                 IF Stat(f, Join(chapter, MetadataFileName)) THEN [r EXCEPT !.pc = "chload"]
                 ELSE ChapterDone(r, CreateChapterFromDirectory(f, r.sc.manga.ID, chapter))
          [] OTHER -> ChapterDone(r, LoadChapter(f, Join(chapter, MetadataFileName)))

\* GetMangaByID(id), a file system call at a time
getSeriesById ==
    \/ \E id \in {nOnePiece, nNaruto, nOp, <<>>, Dot, DotDot} :
           Begins(Reading(fs, GetMangaByIDStep(fs, Started([op |-> "GetMangaByID",
                                                            req |-> [id |-> id]],
                                                           "ok", fs))),
                  ops)
    \/ \E i \in DOMAIN running :
           /\ running[i].op = "GetMangaByID"
           /\ Takes(i, Reading(fs, GetMangaByIDStep(fs, running[i])))

\* The sidecar files of the tree
Sidecars(f) == {p \in DOMAIN f : Base(p) = MetadataFileName /\ f[p].kind = "file"}

\* The records a sidecar is loaded into: a fresh one and one that has a Path
LoadTargets == {ZeroManga, [ZeroManga EXCEPT !.ID = nOp, !.Path = OnePiecePath]}

\* m.LoadFromJSON(p) on the sidecar of the root or of a series directory:
\* one os.ReadFile
loadSeries ==
    \E p \in {q \in Sidecars(fs) : Len(q) <= 3}, m \in LoadTargets :
        Begins(Reading(fs, Got(Started([op |-> "LoadFromJSON",
                                        req |-> [path |-> p, into |-> m]], "ok", fs),
                               LoadMangaInto(m, fs, p))),
               ops)

\* c.LoadFromJSON(p) on the sidecar of a chapter directory: one os.ReadFile
loadChapter ==
    \E p \in {q \in Sidecars(fs) : Len(q) = 4}, path \in {<<>>, OnePiecePath} :
        Begins(Reading(fs, Got(Started([op |-> "Chapter.LoadFromJSON",
                                        req |-> [path |-> p,
                                                 into |-> [ZeroChapter EXCEPT !.Path = path]]],
                                       "ok", fs),
                               LoadChapterInto([ZeroChapter EXCEPT !.Path = path], fs, p))),
               ops)

\* Outside the program, a sidecar that no save has open is moved to another
\* directory of the same depth that has none
moveSidecar ==
    \E p \in Sidecars(fs) :
        \E d \in {q \in DOMAIN fs : /\ fs[q].kind = "dir"
                                    /\ Len(q) = Len(p) - 1
                                    /\ q # Dir(p)
                                    /\ ~Stat(fs, Join(q, MetadataFileName))} :
            /\ ops < MaxOps
            /\ \A k \in DOMAIN running :
                   running[k].pc = "opened" => running[k].req.path # p
            /\ fs' = [q \in (DOMAIN fs \ {p}) \cup {Join(d, MetadataFileName)} |->
                         IF q = Join(d, MetadataFileName) THEN fs[p] ELSE fs[q]]
            /\ ops' = ops + 1
            /\ UNCHANGED <<last, running, browser>>

NextStore ==
    \/ saveSeries
    \/ getSeriesById
    \/ loadSeries
    \/ loadChapter
    \/ moveSidecar
    \/ respond

SpecStore == InitStore /\ [][NextStore]_vars

(***************************************************************************)
(* Properties.                                                             *)
(***************************************************************************)
\* The Numbers of a list of pages or chapters
NumbersOf(list) == [k \in 1..Len(list) |-> list[k].Number]

\* A list of numbers ascends
Ascending(nums) == \A k \in 1..(Len(nums) - 1) : nums[k] <= nums[k + 1]

\* C1 (as the specification states it): GetPages gives every file whose
\* filename stem parses as an integer exactly that integer as its page number
\* and returns the pages sorted ascending by number, so that 1.jpg, 2.jpg and
\* 5.png are returned as pages 1, 2 and 5.
C1_PageNumberIsStem ==
    (last.op = "GetPages" /\ last.err = "") =>
        /\ \A k \in 1..Len(last.body) :
               Atoi(Stem(Base(last.body[k].ImagePath))).ok =>
                   last.body[k].Number = Atoi(Stem(Base(last.body[k].ImagePath))).val
        /\ Ascending(NumbersOf(last.body))

\* C2 (as the specification states it): CreateChapterFromDirectory returns
\* a nil error and a chapter Number of at least 1 for every directory name
\* and every directory content.
C2_InferredNumberAtLeastOne ==
    last.op = "CreateChapterFromDirectory" => (last.err = "" /\ ~NumLess(last.rec.Number, One))

\* What decoding returns for a saved record: an empty list of alternate
\* titles is not written (omitempty) and so is read back as nil.
AsReadBack(s) == [s EXCEPT !.AltTitles = IF Len(@.elems) = 0 THEN NilSlice ELSE @]

\* C3: after s.SaveToJSON(root/s.ID/metadata.json) succeeds,
\* GetMangaByID(s.ID) succeeds and returns a record equal to s in every
\* serialized field, with Path root/s.ID whatever Path s carried: the record
\* returned has the JSON form of s, and is s field for field but for Path
\* and for a list of alternate titles that was empty, which is not written
\* and is returned nil.  The save and the lookup are calls made of steps:
\* the lookup starts when the save has returned, and nothing else writes
\* from the start of the save to the return of the lookup.
C3_RoundTrip ==
    [][\A i, j \in Slots :
           (/\ running[j].op = "SaveToJSON"
            /\ running[j].pc = "done"
            /\ running[j].sv.err = ""
            /\ running[j].sv.path = Join(Join(RootDir, running[j].sv.rec.ID), MetadataFileName)
            /\ Undisturbed(running[j], ops - 1)
            /\ running'[i].op = "GetMangaByID"
            /\ running[i].pc # "done"
            /\ running'[i].pc = "done"
            /\ running'[i].req.id = running[j].sv.rec.ID
            /\ Undisturbed(running'[i], ops))
               => /\ running'[i].g.err = ""
                  /\ MarshalManga(running'[i].g.manga) = MarshalManga(running[j].sv.rec)
                  /\ running'[i].g.manga =
                         [AsReadBack(running[j].sv.rec)
                              EXCEPT !.Path = Join(RootDir, running[j].sv.rec.ID)]
      ]_vars

\* C3 witness: a record with an empty list of alternate titles, carrying a
\* Path other than root/ID, was saved, the save returned, and a lookup that
\* started afterwards has read it back with Path root/ID.
C3_RoundTripReached ==
    \E i, j \in Slots :
        /\ running[j].op = "SaveToJSON"
        /\ running[j].pc = "done"
        /\ running[j].sv.err = ""
        /\ running[j].sv.rec.ID = nNaruto
        /\ running[j].sv.rec.Path = OnePiecePath
        /\ running[j].sv.rec.AltTitles = Slice(<<>>)
        /\ Undisturbed(running[j], ops - 1)
        /\ running[i].op = "GetMangaByID"
        /\ running[i].pc = "done"
        /\ running[i].req.id = nNaruto
        /\ Undisturbed(running[i], ops)
        /\ running[i].g.err = ""
        /\ running[i].g.manga.Path = NarutoPath
        /\ running[i].g.manga.AltTitles = NilSlice

\* The chapters getPage scans for the series of its request
ScannedChapters(f, id) == ScanForChapters(f, GetMangaByID(f, id).manga).chapters

\* The scan index of the first chapter with the number, 0 when none has it
ScanIndex(chapters, val) ==
    IF \E k \in 1..Len(chapters) : NumEq(chapters[k].Number, val)
    THEN CHOOSE k \in 1..Len(chapters) :
             /\ NumEq(chapters[k].Number, val)
             /\ \A h \in 1..(k - 1) : ~NumEq(chapters[h].Number, val)
    ELSE 0

\* C4: a getPage answer for the chapter at scan index i with n pages carries
\* nextChapter, the Number of the chapter at index i+1, exactly when the
\* requested page number is at least n and i is not the last index; it
\* carries prevChapter, the Number of the chapter at index i-1, exactly when
\* the requested page number is 1 and i is not the first index.
C4_ChapterAdjacency ==
    (last.op = "getPage" /\ last.status = StatusOK) =>
        LET chapters == ScannedChapters(fs, last.req.id)
            i        == ScanIndex(chapters, ParseFloat(last.req.chapterNumber).val)
            n        == Len(GetPages(fs, chapters[i]).pages)
            p        == Atoi(last.req.pageNumber).val
        IN  /\ ("nextChapter" \in DOMAIN last.body) <=> (p >= n /\ i < Len(chapters))
            /\ ("nextChapter" \in DOMAIN last.body) =>
                   last.body.nextChapter = FormatFloatShortest(chapters[i + 1].Number)
            /\ ("prevChapter" \in DOMAIN last.body) <=> (p = 1 /\ i > 1)
            /\ ("prevChapter" \in DOMAIN last.body) =>
                   last.body.prevChapter = FormatFloatShortest(chapters[i - 1].Number)

\* C4 witness: with chapters scanned as 1, 2, 3, the last page of chapter 2
\* was requested and the answer carries nextChapter 3 and no prevChapter.
C4_LastPageOfChapterTwo ==
    /\ last.op = "getPage"
    /\ last.status = StatusOK
    /\ NumbersOf(ScannedChapters(fs, last.req.id)) = <<Hundredths(100), Hundredths(200), Hundredths(300)>>
    /\ last.req.chapterNumber = s2
    /\ last.body.pageNumber = last.body.totalPages
    /\ last.body.pageNumber > 1
    /\ "nextChapter" \in DOMAIN last.body
    /\ last.body.nextChapter = s3
    /\ "prevChapter" \notin DOMAIN last.body

\* GetMangaByID finds no sidecar at root/id and no series with that ID in a
\* full scan of the readable root
MangaAbsent(f, id) ==
    /\ ~Stat(f, Join(Join(RootDir, id), MetadataFileName))
    /\ CanReadDir(f, RootDir)
    /\ LET mangas == ScanForManga(f).mangas
       IN  \A k \in 1..Len(mangas) : mangas[k].ID # id

\* The series is found and scanned, and none of its chapters has the
\* requested number
ChapterAbsent(f, id, chapterNumberStr) ==
    LET num == ParseFloat(chapterNumberStr)
        g   == GetMangaByID(f, id)
        sc  == ScanForChapters(f, g.manga)
    IN  /\ num.ok
        /\ g.err = ""
        /\ sc.err = ""
        /\ (~num.finite \/ ScanIndex(sc.chapters, num.val) = 0)

\* C5: GetMangaByID(id) returns MangaNotFoundError whenever root/id has no
\* sidecar and the scan of the readable root yields no series with that ID,
\* and the handlers answer 404 "Manga not found" then; getChapter, getPage
\* and updateChapter answer 404 "Chapter not found" whenever the series'
\* scanned chapters hold none with the requested number.
C5_NotFound ==
    [][/\ (/\ last'.op \in {"getManga", "listChapters", "updateManga"}
           /\ MangaAbsent(last'.before, last'.req.id))
              => /\ GetMangaByID(last'.before, last'.req.id).err = "MangaNotFoundError"
                 /\ last'.status = StatusNotFound
                 /\ last'.body = [error |-> "Manga not found"]
       /\ (/\ \/ last'.op \in {"getChapter", "updateChapter"}
              \/ (last'.op = "getPage" /\ Atoi(last'.req.pageNumber).ok)
           /\ ChapterAbsent(last'.before, last'.req.id, last'.req.chapterNumber))
              => (last'.status = StatusNotFound /\ last'.body = [error |-> "Chapter not found"])
      ]_vars

\* C5 witness: updateChapter was asked for a number that no chapter of the
\* series has and answered 404, and the tree still has no such chapter.
C5_ChapterNotFoundReached ==
    /\ last.op = "updateChapter"
    /\ last.status = StatusNotFound
    /\ last.body = [error |-> "Chapter not found"]
    /\ ChapterAbsent(fs, last.req.id, last.req.chapterNumber)
    /\ Len(ScannedChapters(fs, last.req.id)) > 1

\* The subdirectories of a directory
SubDirs(f, dir) ==
    {p \in DOMAIN f : Len(p) = Len(dir) + 1 /\ Dir(p) = dir /\ f[p].kind = "dir"}

\* What a series directory contributes to a scan: its sidecar's record when
\* it has a sidecar, else the inferred record
SeriesFrom(f, p) ==
    IF Stat(f, Join(p, MetadataFileName)) THEN LoadManga(f, Join(p, MetadataFileName))
    ELSE CreateMangaFromDirectory(f, p)

\* What a chapter directory contributes to a scan
ChapterFrom(f, manga, p) ==
    IF Stat(f, Join(p, MetadataFileName)) THEN LoadChapter(f, Join(p, MetadataFileName))
    ELSE CreateChapterFromDirectory(f, manga.ID, p)

\* The series directories that contribute a record
SeriesDirs(f) == {p \in SubDirs(f, RootDir) : SeriesFrom(f, p).err = ""}

\* The chapter directories of a series that contribute a record
ChapterDirs(f, manga) ==
    {p \in SubDirs(f, manga.Path) :
        ~HasPrefix(Base(p), <<".">>) /\ ChapterFrom(f, manga, p).err = ""}

\* C6: ScanForManga and ScanForChapters return an error only when the
\* scanned directory cannot be enumerated; otherwise every subdirectory (for
\* chapters: every non-hidden one) contributes exactly one record, loaded
\* from its sidecar when it has one and inferred when it has none, except
\* that a subdirectory whose sidecar fails to load contributes none; listManga
\* answers with as many entries.
C6_SkipOnError ==
    LET scan == ScanForManga(fs)
    IN  /\ (scan.err # "") <=> ~CanReadDir(fs, RootDir)
        /\ scan.err = "" =>
               /\ Len(scan.mangas) = Cardinality(SeriesDirs(fs))
               /\ \A p \in SeriesDirs(fs) :
                      \E k \in 1..Len(scan.mangas) : scan.mangas[k] = SeriesFrom(fs, p).manga
        /\ \A k \in 1..Len(scan.mangas) :
               LET sc == ScanForChapters(fs, scan.mangas[k])
               IN  /\ (sc.err # "") <=> ~CanReadDir(fs, scan.mangas[k].Path)
                   /\ sc.err = "" =>
                          /\ Len(sc.chapters) = Cardinality(ChapterDirs(fs, scan.mangas[k]))
                          /\ \A p \in ChapterDirs(fs, scan.mangas[k]) :
                                 \E h \in 1..Len(sc.chapters) :
                                     sc.chapters[h] = ChapterFrom(fs, scan.mangas[k], p).chapter
        /\ last.op = "listManga" =>
               /\ (last.status = StatusInternalServerError) <=> ~CanReadDir(fs, RootDir)
               /\ last.status = StatusOK => Len(last.body.elems) = Cardinality(SeriesDirs(fs))

\* C6 witness: listChapters answered with the two chapters of a series that
\* has four chapter directories, one hidden and one whose sidecar does not
\* load.
C6_BadSidecarSkipped ==
    /\ last.op = "listChapters"
    /\ last.status = StatusOK
    /\ Len(last.body.elems) = 2
    /\ Cardinality(SubDirs(fs, OnePiecePath)) = 4
    /\ Stat(fs, Join(Join(OnePiecePath, nCh2), MetadataFileName))
    /\ LoadChapter(fs, Join(Join(OnePiecePath, nCh2), MetadataFileName)).err = "MetadataError"
    /\ IsDirAt(fs, Join(OnePiecePath, nHidden))

\* C7 (as the specification states it): whenever SaveToJSON returns a
\* MetadataError, the file at the target path afterwards holds its complete
\* previous content or does not exist.
C7_FailedSaveKeepsFile ==
    [][(last'.err = "MetadataError" /\ last'.path # <<>>) =>
           (Stat(fs', last'.path) =>
                /\ Stat(last'.before, last'.path)
                /\ fs'[last'.path] = last'.before[last'.path])
      ]_vars

\* C8 (as the specification states it): every series ScanForManga or
\* GetMangaByID returns, and every series addManga or updateManga writes,
\* has a non-empty ID and a non-empty Title.
C8_SeriesHaveIDAndTitle ==
    /\ \A k \in 1..Len(ScanForManga(fs).mangas) :
           ScanForManga(fs).mangas[k].ID # <<>> /\ ScanForManga(fs).mangas[k].Title # <<>>
    /\ \A id \in ReqIDs \cup {<<>>} :
           GetMangaByID(fs, id).err = "" =>
               (GetMangaByID(fs, id).manga.ID # <<>> /\ GetMangaByID(fs, id).manga.Title # <<>>)
    /\ (last.op \in {"addManga", "updateManga"} /\ last.path # <<>> /\ last.err = "") =>
           (last.rec.ID # <<>> /\ last.rec.Title # <<>>)

\* C9 (as the specification states it): every chapter ScanForChapters
\* returns, and every chapter addChapter or updateChapter writes, has a
\* non-empty MangaID and a Number above 0.
C9_ChaptersHaveMangaIDAndNumber ==
    /\ \A k \in 1..Len(ScanForManga(fs).mangas) :
           LET chapters == ScanForChapters(fs, ScanForManga(fs).mangas[k]).chapters
           IN  \A h \in 1..Len(chapters) :
                   chapters[h].MangaID # <<>> /\ NumLess(Zero, chapters[h].Number)
    /\ (last.op \in {"addChapter", "updateChapter"} /\ last.path # <<>> /\ last.err = "") =>
           (last.rec.MangaID # <<>> /\ NumLess(Zero, last.rec.Number))

\* C10 (as the specification states it): no two chapters of a
\* ScanForChapters result have the same Number.
C10_ChapterNumbersUnique ==
    \A k \in 1..Len(ScanForManga(fs).mangas) :
        LET chapters == ScanForChapters(fs, ScanForManga(fs).mangas[k]).chapters
        IN  \A h, j \in 1..Len(chapters) :
                NumEq(chapters[h].Number, chapters[j].Number) => h = j

\* The engine errors the HTTP layer is to answer with not-found
NotFoundErrors == {"MangaNotFoundError", "ChapterNotFoundError", "PageNotFoundError"}

\* The first engine error a handler meets on a request whose numbers parse:
\* that of GetMangaByID, else that of the scan, else that of GetPages on the
\* chapter found; "" when no engine call fails.
EngineError(f, op, req) ==
    IF op = "listManga" THEN ScanForManga(f).err
    ELSE LET g == GetMangaByID(f, req.id)
         IN  IF g.err # "" \/ op = "getManga" THEN g.err
             ELSE LET sc == ScanForChapters(f, g.manga)
                  IN  IF sc.err # "" \/ op = "listChapters" THEN sc.err
                      ELSE LET i == FindChapter(sc.chapters, ParseFloat(req.chapterNumber))
                           IN  IF i = 0 THEN "" ELSE GetPages(f, sc.chapters[i]).err

\* The numeric parameters of the request parse
ParamsParse(op, req) ==
    /\ op \in {"getChapter", "getPage"} => ParseFloat(req.chapterNumber).ok
    /\ op = "getPage" => Atoi(req.pageNumber).ok

\* C11 (as the specification states it): in every handler an engine error of
\* kind MangaNotFoundError, ChapterNotFoundError or PageNotFoundError,
\* the ChapterNotFoundError of GetPages on an unreadable chapter directory
\* included, is answered 404, and every other engine error is answered 500.
C11_ErrorMapping ==
    (/\ last.op \in {"listManga", "getManga", "listChapters", "getChapter", "getPage"}
     /\ ParamsParse(last.op, last.req)
     /\ EngineError(fs, last.op, last.req) # "") =>
        IF EngineError(fs, last.op, last.req) \in NotFoundErrors
        THEN last.status = StatusNotFound
        ELSE last.status = StatusInternalServerError

\* The name without one leading token "chapter-", "chapter" or "ch"
StripLeadingToken(s) ==
    IF HasPrefix(s, <<"c", "h", "a", "p", "t", "e", "r", "-">>) THEN Drop(s, 8)
    ELSE IF HasPrefix(s, <<"c", "h", "a", "p", "t", "e", "r">>) THEN Drop(s, 7)
    ELSE IF HasPrefix(s, <<"c", "h">>) THEN Drop(s, 2)
    ELSE s

\* The reference of the specification: the value of the remainder, spaces
\* around it aside, when it reads as a decimal number other than zero, else 1
ReferenceChapterNumber(dirName) ==
    LET r == ParseFloat(Trim(StripLeadingToken(ToLower(dirName)), " "))
    IN  IF r.ok /\ r.finite /\ ~IsZero(r.val) THEN r.val ELSE One

\* C12 (as the specification states it): the chapter number inferred from a
\* directory name is the value of what follows one leading token "chapter-",
\* "chapter" or "ch" when that is a decimal numeral other than zero
\* ("chapter-07" gives 7), and 1 otherwise.
C12_InferenceIsReference ==
    last.op = "CreateChapterFromDirectory" =>
        last.rec.Number = ReferenceChapterNumber(Base(last.req.dirPath))

(***************************************************************************)
(* The pure functions as calls: createSlug on every title of up to         *)
(* MaxSlugLen characters over SlugChars and on the titles of the requests, *)
(* and the page adjacency of a Page with a Number up to MaxPageNumber.     *)
(***************************************************************************)
MaxSlugLen == 4

MaxPageNumber == 3

\* A lower-case letter, an upper-case letter, a digit, the space, the hyphen
\* and a character the slug does not keep
SlugChars == {"a", "B", "1", " ", "-", "!"}

SlugInputs ==
    UNION {[1..n -> SlugChars] : n \in 0..MaxSlugLen} \cup {tOnePiece, tBang, tNaruto}

\* The pages whose neighbours are asked for: Page is a plain struct, so
\* its Number may be any int
PageInputs ==
    {[Number |-> n, ImagePath |-> Join(Join(OnePiecePath, nCh1), f1jpg), ChapterID |-> nCh1,
      MangaID |-> nOnePiece] : n \in (0 - 2)..MaxPageNumber}

InitPure ==
    /\ fs = Tree({<<RootDir, DirNode(TRUE)>>})
    /\ last = Idle
    /\ ops = 0
    /\ running = <<>>
    /\ browser = NoBrowser

\* createSlug(s)
slugify ==
    \E s \in SlugInputs : Returns("createSlug", [s |-> s], createSlug(s), <<>>, "")

\* p.GetNextPageNumber() and p.GetPrevPageNumber()
pageNeighbours ==
    \E p \in PageInputs :
        Returns("PageNeighbours", [page |-> p],
                [next |-> GetNextPageNumber(p), prev |-> GetPrevPageNumber(p)], <<>>, "")

NextPure ==
    \/ slugify
    \/ pageNeighbours
    \/ Deliver

SpecPure == InitPure /\ [][NextPure]_vars

\* C13: createSlug returns a string made only of the characters a-z, 0-9 and
\* "-", that neither starts nor ends with "-" and holds no "--"; the slug of
\* "One Piece!" is "one-piece".
C13_SlugShape ==
    last.op = "createSlug" =>
        /\ \A i \in 1..Len(last.body) :
               IsLower(last.body[i]) \/ IsDigit(last.body[i]) \/ last.body[i] = "-"
        /\ Len(last.body) > 0 => (last.body[1] # "-" /\ last.body[Len(last.body)] # "-")
        /\ \A i \in 1..(Len(last.body) - 1) : ~(last.body[i] = "-" /\ last.body[i + 1] = "-")
        /\ last.req.s = tOnePiece => last.body = nOnePiece

\* C13 witness: the slug of "One Piece!" was computed and is "one-piece".
C13_OnePieceSlugged ==
    /\ last.op = "createSlug"
    /\ last.req.s = tOnePiece
    /\ last.body = <<"o", "n", "e", "-", "p", "i", "e", "c", "e">>

\* The entries of a chapter directory that are neither subdirectories nor
\* files with extension .json, in the order ReadDir lists them
PageFilesOf(f, dir) ==
    LET names == ReadDir(f, dir)
        G[i \in 0..Len(names)] ==
            IF i = 0 THEN <<>>
            ELSE IF ~IsDirAt(f, Join(dir, names[i])) /\ Ext(names[i]) # <<".", "j", "s", "o", "n">>
                 THEN Append(G[i - 1], names[i])
                 ELSE G[i - 1]
    IN  G[Len(names)]

\* C14: GetPages fails only when the chapter directory cannot be read;
\* subdirectories and files with extension .json yield no page, every other
\* file yields exactly one, and a file whose stem is no integer is numbered
\* with the count of pages collected before it plus one.
C14_FallbackOrdinal ==
    last.op = "GetPages" =>
        /\ (last.err # "") <=> ~CanReadDir(fs, last.req.chapter.Path)
        /\ last.err = "" =>
               LET dir   == last.req.chapter.Path
                   files == PageFilesOf(fs, dir)
               IN  /\ Len(last.body) = Len(files)
                   /\ \A k \in 1..Len(files) :
                          \E j \in 1..Len(last.body) :
                              /\ last.body[j].ImagePath = Join(dir, files[k])
                              /\ ~Atoi(Stem(files[k])).ok => last.body[j].Number = k

\* C14 witness: GetPages returned two pages for a directory that holds
\* 1.jpg, a.jpg, x.json and a subdirectory, and a.jpg is page 2.
C14_UnparseableNextToParseable ==
    /\ last.op = "GetPages"
    /\ last.err = ""
    /\ ReadDir(fs, last.req.chapter.Path) = <<f1jpg, fAjpg, fSub, fXjson>>
    /\ Len(last.body) = 2
    /\ \E j \in 1..2 : Base(last.body[j].ImagePath) = fAjpg /\ last.body[j].Number = 2

\* C15: after a successful GetPages on a chapter, the chapter's PageCount is
\* the length of the returned list, whatever it was before; the pageCount
\* getChapter answers and the totalPages getPage answers are that length.
C15_PageCountIsLength ==
    /\ \A k \in 1..Len(ScanForManga(fs).mangas) :
           LET chapters == ScanForChapters(fs, ScanForManga(fs).mangas[k]).chapters
           IN  \A h \in 1..Len(chapters) :
                   GetPages(fs, chapters[h]).err = "" =>
                       GetPages(fs, chapters[h]).chapter.PageCount =
                           Len(GetPages(fs, chapters[h]).pages)
    /\ (last.op \in {"getChapter", "getPage"} /\ last.status = StatusOK) =>
           LET chapters == ScannedChapters(fs, last.req.id)
               i        == ScanIndex(chapters, ParseFloat(last.req.chapterNumber).val)
               n        == Len(GetPages(fs, chapters[i]).pages)
           IN  IF last.op = "getChapter"
               THEN last.body.pageCount = n /\ Len(last.body.pages.elems) = n
               ELSE last.body.totalPages = n

\* C15 witness: getChapter answered for a chapter whose sidecar says 7 pages
\* and whose directory holds 2, with pageCount 2.
C15_SidecarCountOverwritten ==
    /\ last.op = "getChapter"
    /\ last.status = StatusOK
    /\ \E h \in 1..Len(ScannedChapters(fs, last.req.id)) :
           /\ ScannedChapters(fs, last.req.id)[h].ID = last.body.id
           /\ ScannedChapters(fs, last.req.id)[h].PageCount = 7
    /\ last.body.pageCount = 2
    /\ Len(last.body.pages.elems) = 2

\* C16: GetNextPageNumber returns the page's Number plus one, whatever the
\* chapter's page count; GetPrevPageNumber returns the Number minus one when
\* the Number is above 1 and the sentinel 0 otherwise.
C16_PageNeighbours ==
    last.op = "PageNeighbours" =>
        /\ last.body.next = last.req.page.Number + 1
        /\ last.req.page.Number > 1 => last.body.prev = last.req.page.Number - 1
        /\ last.req.page.Number <= 1 => last.body.prev = 0

\* C16 witness: the neighbours of a page numbered 0 were asked for, and the
\* previous one is the sentinel 0 while the next one is 1.
C16_SentinelReturned ==
    /\ last.op = "PageNeighbours"
    /\ last.req.page.Number = 0
    /\ last.body = [next |-> 1, prev |-> 0]

\* The record a LoadFromJSON call has decoded into
Loaded(r) == IF r.op = "LoadFromJSON" THEN r.g.manga ELSE r.g.chapter

\* C17: after a successful LoadFromJSON(p) of a series or of a chapter, the
\* record's Path is the parent directory of p, whatever the file holds and
\* whatever Path the record had; a sidecar moved to another directory gives
\* that directory on the next load.
C17_PathIsParent ==
    \A i \in DOMAIN running :
        (/\ running[i].op \in {"LoadFromJSON", "Chapter.LoadFromJSON"}
         /\ running[i].pc = "done"
         /\ running[i].g.err = "")
            => /\ Len(running[i].req.path) > 1
               /\ Loaded(running[i]).Path =
                      SubSeq(running[i].req.path, 1, Len(running[i].req.path) - 1)

\* C17 witness: the sidecar of one-piece, moved to naruto, was loaded into a
\* record whose Path was that of one-piece, and its Path is now naruto's.
C17_MovedSidecarLoaded ==
    \E i \in DOMAIN running :
        /\ running[i].op = "LoadFromJSON"
        /\ running[i].pc = "done"
        /\ running[i].g.err = ""
        /\ running[i].req.path = Join(NarutoPath, MetadataFileName)
        /\ running[i].req.into.Path = OnePiecePath
        /\ running[i].g.manga.ID = nOnePiece
        /\ running[i].g.manga.Path = NarutoPath
        /\ Stat(running[i].before, Join(NarutoPath, MetadataFileName))
        /\ ~Stat(fs, Join(OnePiecePath, MetadataFileName))

\* A numeric parameter of the request does not parse
ParamFails(op, req) ==
    \/ ~ParseFloat(req.chapterNumber).ok
    \/ (op = "getPage" /\ ~Atoi(req.pageNumber).ok)

\* C18: when the chapter number (in getPage also the page number) does not
\* parse, getChapter, getPage and updateChapter answer 400 and nothing of the
\* engine or of the tree takes part in the request: the answer is the same
\* on every tree, whether or not the series exists or can be read, nothing
\* is written and no record is loaded or saved.
C18_BadNumberBeforeEngine ==
    [][(/\ last'.op \in {"getChapter", "getPage", "updateChapter"}
        /\ last.op = "idle"
        /\ ParamFails(last'.op, last'.req))
           => /\ last'.status = StatusBadRequest
              /\ last'.body = [error |-> IF ~ParseFloat(last'.req.chapterNumber).ok
                                         THEN "Invalid chapter number"
                                         ELSE "Invalid page number"]
              /\ fs' = last'.before
              /\ last'.path = <<>>
              /\ last'.rec = <<>>
              /\ last'.err = ""
      ]_vars

\* C18 witness: getChapter was asked for chapter "x" of a series that does
\* not exist, and answered 400, not 404.
C18_BadNumberOfMissingSeries ==
    /\ last.op = "getChapter"
    /\ last.req.chapterNumber = sX
    /\ GetMangaByID(fs, last.req.id).err = "MangaNotFoundError"
    /\ last.status = StatusBadRequest

(***************************************************************************)
(* The server given up to MaxInFlight requests at a time: the GET requests *)
(* of ConcReads and, MaxOps times, a request that writes: an admin request *)
(* of ConcAdmins or a SaveToJSON call of ConcSaves.                        *)
(***************************************************************************)
\* The GET requests made of the concurrent server
ConcReads ==
    {[op |-> "listManga", req |-> <<>>],
     [op |-> "getManga", req |-> [id |-> nOnePiece]],
     [op |-> "listChapters", req |-> [id |-> nOnePiece]],
     [op |-> "getChapter", req |-> [id |-> nOnePiece, chapterNumber |-> s1]],
     [op |-> "getChapter", req |-> [id |-> nOnePiece, chapterNumber |-> sX]],
     [op |-> "getPage", req |-> [id |-> nOnePiece, chapterNumber |-> s2, pageNumber |-> s1]]}

\* The saves: the sidecar of one-piece is rewritten with a new title
ConcSaves ==
    {[op |-> "SaveToJSON",
      req |-> [rec |-> [ZeroManga EXCEPT !.ID = nOnePiece, !.Title = tRenamed],
               path |-> Join(OnePiecePath, MetadataFileName)]]}

\* The admin requests made of the concurrent server: a new series naruto,
\* the two updates of one-piece, a new chapter 1 of one-piece and the two
\* updates of its chapter 1
ConcAdmins ==
    {[op |-> "addManga",
      req |-> [body |-> [Title |-> tNaruto, Description |-> "", Author |-> "someone",
                         Artist |-> "", Genres |-> NilSlice, Status |-> ""]]],
     [op |-> "addChapter",
      req |-> [id |-> nOnePiece,
               body |-> [Number |-> One, Title |-> <<>>, Volume |-> 0, Special |-> FALSE]]]}
        \cup {[op |-> "updateManga", req |-> [id |-> nOnePiece, body |-> b]] :
                 b \in UpdateMangaReqs}
        \cup {[op |-> "updateChapter",
               req |-> [id |-> nOnePiece, chapterNumber |-> s1, body |-> b]] :
                 b \in UpdateChapterReqs}

ConcLibraries ==
    {Library(TRUE, TRUE, "valid", "numbered", TRUE),
     Library(TRUE, TRUE, "none", "sidecars", FALSE)}

InitConc ==
    /\ fs \in ConcLibraries
    /\ last = Idle
    /\ ops = 0
    /\ running = [i \in Slots |-> Free]
    /\ browser = NoBrowser

\* A request arrives and its goroutine starts
accept ==
    \E i \in Slots, q \in ConcReads \cup ConcSaves \cup ConcAdmins :
        /\ running[i].op = "free"
        /\ q.op \notin ReadOps => ops < MaxOps
        /\ running' = [running EXCEPT ![i] = Started(q, "ok", fs)]
        /\ ops' = IF q.op \in ReadOps THEN ops ELSE ops + 1
        /\ UNCHANGED <<fs, last, browser>>

\* A SaveToJSON call in flight takes its next step
saveToJSON ==
    \E i \in DOMAIN running :
        /\ running[i].op = "SaveToJSON"
        /\ running[i].pc # "done"
        /\ \E s \in SaveStep(fs, running[i]) : Takes(i, s)

NextConc ==
    \/ accept
    \/ listManga
    \/ getManga
    \/ listChapters
    \/ getChapter
    \/ getPage
    \/ addManga
    \/ updateManga
    \/ addChapter
    \/ updateChapter
    \/ saveToJSON
    \/ respond

SpecConc == InitConc /\ [][NextConc]_vars

\* The response of a GET handler that runs alone on the tree f
AloneResp(f, op, req) ==
    CASE op = "listManga"    -> ListMangaResp(f)
      [] op = "getManga"     -> GetMangaResp(f, req.id)
      [] op = "listChapters" -> ListChaptersResp(f, req.id)
      [] op = "getChapter"   -> GetChapterResp(f, req.id, req.chapterNumber)
      [] op = "getPage"      -> GetPageResp(f, req.id, req.chapterNumber, req.pageNumber)

\* What the engine returned to the handler of r is what it returns on f
AloneRecords(f, r) ==
    /\ (r.g # <<>> /\ r.op = "listManga") => r.g = ScanForManga(f)
    /\ (r.g # <<>> /\ r.op # "listManga") => r.g = GetMangaByID(f, r.req.id)
    /\ r.sc # <<>> => r.sc = ScanForChapters(f, r.g.manga)

\* C19: every step of a read request, whatever else is in flight, leaves
\* the tree and the other requests as they were; and a read request during
\* which no request that writes (an admin request or a save) was in flight,
\* whatever was written before it arrived and whatever other reads ran next
\* to it, ends with the records and the response it has when it runs alone
\* on the tree it arrived at.
C19_ConcurrentReads ==
    [][\A i \in Slots :
          (/\ running # <<>>
           /\ running'[i].pc # running[i].pc
           /\ (running[i].op \in ReadOps \/ running'[i].op \in ReadOps))
              => /\ fs' = fs
                 /\ \A j \in Slots \ {i} : running'[j] = running[j]
                 /\ (running'[i].pc = "done" /\ Undisturbed(running'[i], ops'))
                        => /\ running'[i].resp
                                  = AloneResp(running'[i].before, running'[i].op,
                                              running'[i].req)
                           /\ AloneRecords(running'[i].before, running'[i])
      ]_vars

\* C19 witness: after an addChapter has written the sidecar of a new
\* chapter and returned, a getChapter of that chapter has answered 200
\* while a getPage that arrived after the addChapter too was between its
\* engine calls.
C19_TwoReadsInterleaved ==
    /\ running # <<>>
    /\ ops = 1
    /\ \E i, j \in Slots :
          /\ running[i].op = "getChapter"
          /\ running[i].pc = "done"
          /\ running[i].resp.status = StatusOK
          /\ Undisturbed(running[i], ops)
          /\ running[i].since.ops = 1
          /\ Stat(fs, Join(Join(OnePiecePath, ChapterIDOf(One)), MetadataFileName))
          /\ running[j].op = "getPage"
          /\ running[j].pc = "scanned"
          /\ Undisturbed(running[j], ops)

\* A save in flight has opened the sidecar at path and not yet written it
SaveWindow(run, path) ==
    \E j \in Slots : /\ run[j].op = "SaveToJSON"
                     /\ run[j].pc = "opened"
                     /\ run[j].req.path = path

\* C20: while a SaveToJSON, the only one accepted so far, is between
\* opening a sidecar and writing it, the file holds neither the old nor the
\* new document, and a reader that loads or scans then fails to load it:
\* ScanForManga returns a list without the series, a GetMangaByID that finds
\* the file returns MetadataError (the handler answers 500), and a
\* GetMangaByID that had found no file before the save, and scans now,
\* returns MangaNotFoundError (the handler answers 404).
C20_ReadDuringSave ==
    [][\A i \in Slots :
          (/\ running # <<>>
           /\ running[i].op \in ReadOps
           /\ running[i].pc \in {"called", "missed"}
           /\ running'[i].pc \notin {"called", "missed"}
           /\ ParamError(running[i].op, running[i].req) = <<>>
           /\ ops = 1
           /\ SaveWindow(running, Join(OnePiecePath, MetadataFileName)))
              => /\ fs[Join(OnePiecePath, MetadataFileName)].data.t # "json"
                 /\ running[i].op = "listManga"
                        => /\ running'[i].g.err = ""
                           /\ \A k \in 1..Len(running'[i].g.mangas) :
                                  running'[i].g.mangas[k].Path # OnePiecePath
                 /\ (running[i].op # "listManga" /\ running[i].pc = "called")
                        => /\ running'[i].g.err = "MetadataError"
                           /\ running'[i].resp.status = StatusInternalServerError
                 /\ running[i].pc = "missed"
                        => /\ running'[i].g.err = "MangaNotFoundError"
                           /\ running'[i].resp.status = StatusNotFound
      ]_vars

\* C20 witness: in the library whose one-piece had a valid sidecar (the one
\* with naruto), a save of that sidecar is between open and write and a
\* getManga's GetMangaByID has returned MetadataError.
C20_TornSidecarRead ==
    /\ running # <<>>
    /\ Stat(fs, NarutoPath)
    /\ SaveWindow(running, Join(OnePiecePath, MetadataFileName))
    /\ \E i \in Slots :
          /\ running[i].op = "getManga"
          /\ running[i].pc = "done"
          /\ running[i].g.err = "MetadataError"

\* GetMangaByID(id) has returned g, and g is what the tree f gives: what
\* loading root/id/metadata.json returns when that file exists, a failure to
\* load included; when it does not exist the error of ScanForManga, or the
\* first series of the scan whose ID is id, or MangaNotFoundError when
\* there is none
ResolvedOn(f, id, g) ==
    LET p    == Join(Join(RootDir, id), MetadataFileName)
        scan == ScanForManga(f)
        hits == {i \in 1..Len(scan.mangas) : scan.mangas[i].ID = id}
    IN  IF p \in DOMAIN f
        THEN /\ g.err = LoadManga(f, p).err
             /\ g.err = "" => g.manga = LoadManga(f, p).manga
             /\ g.err \in {"", "MetadataError"}
        ELSE IF scan.err # "" THEN g.err = scan.err
        ELSE IF hits = {} THEN g.err = "MangaNotFoundError"
        ELSE /\ g.err = ""
             /\ \E i \in hits : /\ \A j \in hits : i <= j
                                /\ g.manga = scan.mangas[i]

\* C21: GetMangaByID(id) returns what loading root/id/metadata.json returns
\* when that file exists, a failure to load included; when it does not
\* exist it returns the error of ScanForManga, or the first series of the
\* scan whose ID is id, or MangaNotFoundError when there is none.  Of a call
\* made of steps: a call whose os.Stat has found the file returns, at its
\* next step and whatever has been written since, what loading the file
\* returns then, and has read no directory; and a call during which nothing
\* writes returns what the tree it ran on gives.
C21_ResolutionOrder ==
    [][\A i \in Slots :
           (running'[i].op = "GetMangaByID" /\ running'[i] # running[i]) =>
               /\ running[i].pc = "found" =>
                      /\ running'[i].pc = "done"
                      /\ running'[i].g =
                             LoadManga(fs, Join(Join(RootDir, running[i].req.id),
                                                MetadataFileName))
                      /\ running'[i].sc = <<>>
               /\ (running'[i].pc = "done" /\ Undisturbed(running'[i], ops)) =>
                      /\ fs = running'[i].before
                      /\ ResolvedOn(running'[i].before, running'[i].req.id, running'[i].g)
      ]_vars

\* C21 witness: the series in directory one-piece, whose sidecar says "op",
\* was asked for as "op" in a call during which nothing wrote, and found by
\* the scan.
C21_FoundByItsID ==
    \E i \in Slots :
        /\ running[i].op = "GetMangaByID"
        /\ running[i].pc = "done"
        /\ Undisturbed(running[i], ops)
        /\ running[i].req.id = nOp
        /\ running[i].g.err = ""
        /\ running[i].g.manga.ID = nOp
        /\ running[i].g.manga.Path = OnePiecePath
        /\ Len(running[i].sc.mangas) = 1

\* C22: in a getPage response the nextPage is 0 on the last page of the
\* chapter and the page number plus one on the others.
C22_NextPageZeroOnLastPage ==
    (last.op = "getPage" /\ last.status = StatusOK) =>
        last.body.nextPage = IF last.body.pageNumber >= last.body.totalPages
                             THEN 0
                             ELSE last.body.pageNumber + 1

\* C23: a successful updateChapter leaves the chapter's id, mangaId, number
\* and directory as the scan had them, and a field the body omits (an empty
\* title, a zero volume, a false special) keeps the value it had.
C23_OmittedFieldsKept ==
    [][(/\ last.op = "idle"
        /\ last'.op = "updateChapter"
        /\ last'.status = StatusOK)
           => LET chapters == ScannedChapters(last'.before, last'.req.id)
                  before   == chapters[ScanIndex(chapters,
                                           ParseFloat(last'.req.chapterNumber).val)]
                  after    == last'.rec
                  body     == last'.req.body
              IN  /\ after.ID = before.ID
                  /\ after.MangaID = before.MangaID
                  /\ after.Number = before.Number
                  /\ after.Path = before.Path
                  /\ body.Title = <<>> => after.Title = before.Title
                  /\ body.Volume = 0 => after.Volume = before.Volume
                  /\ ~body.Special => after.Special = before.Special
      ]_vars

\* C24: a series that GetMangaByID(id) returns without error has the ID id.
C24_ReturnedIDIsRequested ==
    \A i \in DOMAIN running :
        (running[i].op = "GetMangaByID" /\ running[i].pc = "done" /\ running[i].g.err = "")
            => running[i].g.manga.ID = running[i].req.id

\* The chapter c is in the list with the same fields
Listed(chapters, c) == \E k \in 1..Len(chapters) : chapters[k] = c

\* C25: after a successful addChapter of number n, every chapter of the
\* series that the scan returned before the request and whose number is not
\* n is returned by the scan as it was, with the pages it had.
C25_OtherChaptersKept ==
    [][(/\ last.op = "idle"
        /\ last'.op = "addChapter"
        /\ last'.status = StatusCreated)
           => \A k \in 1..Len(ScannedChapters(last'.before, last'.req.id)) :
                  LET c == ScannedChapters(last'.before, last'.req.id)[k]
                  IN  ~NumEq(c.Number, last'.req.body.Number)
                          => /\ Listed(ScannedChapters(fs', last'.req.id), c)
                             /\ GetPages(fs', c) = GetPages(last'.before, c)
      ]_vars

(***************************************************************************)
(* The frontend: the router (routes/index.ts), the API service and the     *)
(* three pages, in one browser tab over a library that does not change.    *)
(* browser holds                                                           *)
(*   path     location.pathname as its segments: the text is "/" followed  *)
(*            by the segments joined with "/" ("/" is one empty segment);  *)
(*   hist     the session history up to the current entry (nothing here    *)
(*            goes forward, so the entries ahead are not kept);            *)
(*   app      what #app holds of the page: the elements that exist, their  *)
(*            data attributes and disabled flags, and for every event      *)
(*            listener the variables of the call that added it (texts and  *)
(*            styles are not kept);                                        *)
(*   keydown  the keydown listeners of document;                           *)
(*   tasks    the async functions that wait for a fetch.                   *)
(* An event handler runs to completion; an async function runs up to its   *)
(* next await and goes on, in a later step, when the response is there.    *)
(* The series IDs hold no "/" and are no dot segments, so that a URL       *)
(* built from them has the segments it was built from.                     *)
(***************************************************************************)
MaxEvents == 3

MaxPending == 1

\* A JavaScript number: a float64 or NaN
JSNum(v) == [nan |-> FALSE, val |-> v]

NaN == [nan |-> TRUE, val |-> Zero]

\* a === b on numbers
StrictEq(a, b) == ~a.nan /\ ~b.nan /\ NumEq(a.val, b.val)

\* Number::toString of a finite number not zero, in exponent notation:
\* d.ddde+x for the digits ds, the point standing n places from their start
ExponentForm(ds, n) ==
    <<ds[1]>> \o (IF Len(ds) > 1 THEN <<".">> \o Drop(ds, 1) ELSE <<>>)
        \o <<"e", IF n - 1 < 0 THEN "-" ELSE "+">> \o NatToStr(Abs(n - 1))

\* `${x}` for a number x: the shortest digits that read back, in positional
\* notation while the point stands within 21 places to the right and 6 to
\* the left
NumberToString(x) ==
    IF x.nan THEN <<"N", "a", "N">>
    ELSE IF x.val.m = 0 THEN <<"0">>
    ELSE (IF x.val.neg THEN <<"-">> ELSE <<>>)
             \o (IF Len(NatToStr(x.val.m)) + x.val.e > 21
                    \/ Len(NatToStr(x.val.m)) + x.val.e <= 0 - 6
                 THEN ExponentForm(NatToStr(x.val.m), Len(NatToStr(x.val.m)) + x.val.e)
                 ELSE FixedPoint(NatToStr(x.val.m), x.val.e))

\* The number a decimal literal denotes in JavaScript (beyond the float64
\* range it is Infinity, which no text of the model denotes)
LiteralValue(v) == IF v.range THEN NotDecimal(<<"I", "n", "f">>, 0) ELSE JSNum(v.val)

\* parseFloat(s): the value of the longest prefix of s that is a decimal
\* literal, NaN when there is none
parseFloat(s) ==
    LET lits == {n \in 1..Len(s) : ScanDecimal(SubSeq(s, 1, n)).wellFormed}
    IN  IF lits = {} THEN NaN
        ELSE LiteralValue(DecimalValue(ScanDecimal(
                 SubSeq(s, 1, CHOOSE n \in lits : \A k \in lits : k <= n))))

\* The digits of 2^53: up to it every integer is a float64
MaxSafeDigits ==
    <<"9", "0", "0", "7", "1", "9", "9", "2", "5", "4", "7", "4", "0", "9", "9", "2">>

\* parseInt(s, 10) of a text that starts with a digit: the float64 of the
\* value of its leading digits, which is that value up to 2^53 and the
\* float64 nearest to it beyond, a number the model does not hold
parseInt(s) ==
    IF Exceeds(SubSeq(s, 1, DigitRunEnd(s, 1) - 1), MaxSafeDigits)
    THEN NotDecimal(SubSeq(s, 1, DigitRunEnd(s, 1) - 1), 0)
    ELSE DigitsValue(SubSeq(s, 1, DigitRunEnd(s, 1) - 1))

\* obj[k] is truthy, for a key k that holds a string when it is present:
\* present, and not the empty string
Truthy(obj, k) == k \in DOMAIN obj /\ obj[k] # <<>>

\* pageData.totalPages || 0
TotalPages(pageData) == IF "totalPages" \in DOMAIN pageData THEN pageData.totalPages ELSE 0

\* What fetch and response.json() give the caller: ok is response.ok, data
\* the decoded body
Fetched(resp) == [ok |-> resp.status >= 200 /\ resp.status < 300, data |-> resp.body]

\* getAllManga: fetch /api/manga
apiGetAllManga(f) == Fetched(ListMangaResp(f))

\* getMangaById: fetch /api/manga/${id}
apiGetMangaById(f, id) == Fetched(GetMangaResp(f, id))

\* getChapters: fetch /api/manga/${mangaId}/chapters
apiGetChapters(f, mangaId) == Fetched(ListChaptersResp(f, mangaId))

\* getPage: fetch /api/manga/${mangaId}/chapter/${chapterNumber}/page/${pageNumber}
apiGetPage(f, mangaId, chapterNumber, pageNumber) ==
    Fetched(GetPageResp(f, mangaId, NumberToString(chapterNumber), NatToStr(pageNumber)))

segManga == <<"m", "a", "n", "g", "a">>

segReader == <<"r", "e", "a", "d", "e", "r">>

segIndexHtml == <<"i", "n", "d", "e", "x", ".", "h", "t", "m", "l">>

\* The path "/"
HomePath == <<<<>>>>

\* [a-zA-Z0-9-]+
IsIdSegment(s) ==
    Len(s) > 0 /\ \A i \in 1..Len(s) : IsDigit(s[i]) \/ IsLower(s[i]) \/ IsUpper(s[i]) \/ s[i] = "-"

\* [\d.]+
IsChapterSegment(s) == Len(s) > 0 /\ \A i \in 1..Len(s) : IsDigit(s[i]) \/ s[i] = "."

\* \d+
IsPageSegment(s) == Len(s) > 0 /\ AllDigits(s)

\* The path has n segments, or n segments and a closing slash: \/?$
HasSegments(path, n) == Len(path) = n \/ (Len(path) = n + 1 /\ path[n + 1] = <<>>)

\* path.match(/^\/manga\/[a-zA-Z0-9-]+\/?$/)
MatchesMangaRoute(path) ==
    HasSegments(path, 2) /\ path[1] = segManga /\ IsIdSegment(path[2])

\* path.match(/^\/reader\/[a-zA-Z0-9-]+\/[\d.]+\/\d+\/?$/)
MatchesReaderRoute(path) ==
    /\ HasSegments(path, 4)
    /\ path[1] = segReader
    /\ IsIdSegment(path[2])
    /\ IsChapterSegment(path[3])
    /\ IsPageSegment(path[4])

\* An async function that waits at the await named at, with its variables
Task(fn, mangaId, chapterNumber, pageNumber, at, pageData) ==
    [fn |-> fn, mangaId |-> mangaId, chapterNumber |-> chapterNumber,
     pageNumber |-> pageNumber, at |-> at, pageData |-> pageData]

\* The variables a listener added by the call t runs in
Scope(t) ==
    [mangaId |-> t.mangaId, chapterNumber |-> t.chapterNumber,
     pageNumber |-> t.pageNumber, pageData |-> t.pageData]

NoScope == Scope(Task("", <<>>, NaN, 0, "", <<>>))

\* renderHomePage: "Show loading state"
HomeSkeleton == [page |-> "home", grid |-> "loading", cards |-> <<>>]

\* renderMangaPage: "Show loading state"; the link back has its listener
MangaSkeleton == [page |-> "manga", details |-> "loading", items |-> <<>>, scope |-> NoScope]

\* A button without listeners
Button == [disabled |-> FALSE, listeners |-> <<>>]

\* renderReaderPage: "Show loading state"
ReaderSkeleton(mangaId) ==
    [page |-> "reader", backTo |-> mangaId, image |-> "none", scope |-> NoScope,
     select |-> [disabled |-> TRUE, options |-> 0, selected |-> 0, listeners |-> <<>>],
     prev |-> Button, next |-> Button]

\* renderHomePage, up to its await
renderHomePage(b) ==
    [b EXCEPT !.app = HomeSkeleton,
              !.tasks = Append(@, Task("renderHomePage", <<>>, NaN, 0, "getAllManga", <<>>))]

\* renderMangaPage, up to its await
renderMangaPage(b, mangaId) ==
    [b EXCEPT !.app = MangaSkeleton,
              !.tasks = Append(@, Task("renderMangaPage", mangaId, NaN, 0, "all", <<>>))]

\* renderReaderPage, up to its first await
renderReaderPage(b, mangaId, chapterNumber, pageNumber) ==
    [b EXCEPT !.app = ReaderSkeleton(mangaId),
              !.tasks = Append(@, Task("renderReaderPage", mangaId, chapterNumber, pageNumber,
                                       "getPage", <<>>))]

\* handleRouteChange
handleRouteChange(b) ==
    IF b.path = HomePath \/ b.path = <<segIndexHtml>> THEN renderHomePage(b)
    ELSE IF MatchesMangaRoute(b.path) THEN renderMangaPage(b, b.path[2])
    ELSE IF MatchesReaderRoute(b.path)
    THEN renderReaderPage(b, b.path[2], parseFloat(b.path[3]), parseInt(b.path[4]))
    ELSE renderHomePage(b)

\* navigateTo(url): history.pushState, then handleRouteChange
navigateTo(b, url) == handleRouteChange([b EXCEPT !.path = url, !.hist = Append(@, url)])

\* `/reader/${mangaId}/${chapterNumber}/${pageNumber}`
ReaderURL(mangaId, chapterText, pageNumber) ==
    <<segReader, mangaId, chapterText, NatToStr(pageNumber)>>

\* initRouter on the document loaded at path
initRouter(path) ==
    handleRouteChange([path |-> path, hist |-> <<path>>, app |-> [page |-> "blank"],
                       keydown |-> <<>>, tasks |-> <<>>])

\* navigateToNextPage
navigateToNextPage(b, c) ==
    IF c.pageNumber < TotalPages(c.pageData)
    THEN navigateTo(b, ReaderURL(c.mangaId, NumberToString(c.chapterNumber), c.pageNumber + 1))
    ELSE IF Truthy(c.pageData, "nextChapter")
    THEN navigateTo(b, ReaderURL(c.mangaId, c.pageData.nextChapter, 1))
    ELSE b

\* navigateToPrevPage; the previous chapter is looked up with getChapters
navigateToPrevPage(b, c) ==
    IF c.pageNumber > 1
    THEN navigateTo(b, ReaderURL(c.mangaId, NumberToString(c.chapterNumber), c.pageNumber - 1))
    ELSE IF Truthy(c.pageData, "prevChapter")
    THEN [b EXCEPT !.tasks = Append(@, Task("navigateToPrevPage", c.mangaId, c.chapterNumber,
                                            c.pageNumber, "getChapters", c.pageData))]
    ELSE b

\* chapters.find(ch => ch.number === number): its index, 0 for undefined
FindByNumber(chapters, number) ==
    LET hits == {i \in 1..Len(chapters) : StrictEq(JSNum(chapters[i].number), number)}
    IN  IF hits = {} THEN 0 ELSE CHOOSE i \in hits : \A j \in hits : i <= j

\* navigateToPrevPage, once getChapters has answered r: "Go to last page of
\* previous chapter"; a failed fetch and the find on null are caught
prevChapterFound(b, t, r) ==
    LET i == FindByNumber(r.data.elems, parseFloat(t.pageData.prevChapter))
    IN  IF ~r.ok \/ r.data.nil \/ i = 0 THEN b
        ELSE navigateTo(b, ReaderURL(t.mangaId, NumberToString(JSNum(r.data.elems[i].number)),
                                     r.data.elems[i].pageCount))

\* renderReaderPage: the catch block
readerFailed(b, t) ==
    [b EXCEPT !.app = IF @.page = "reader"
                      THEN [@ EXCEPT !.image = "error", !.scope = Scope(t)]
                      ELSE @]

\* renderReaderPage on the elements of the reader that is shown: "Display
\* the page image", "Update page selector", "Setup navigation buttons"
Displayed(app, t) ==
    [app EXCEPT
        !.image = "img",
        !.scope = Scope(t),
        !.select = IF TotalPages(t.pageData) # 0
                   THEN [disabled |-> FALSE,
                         options |-> TotalPages(t.pageData),
                         selected |-> IF t.pageNumber \in 1..TotalPages(t.pageData)
                                      THEN t.pageNumber ELSE 1,
                         listeners |-> Append(@.listeners, Scope(t))]
                   ELSE @,
        !.prev = IF t.pageNumber <= 1 /\ ~Truthy(t.pageData, "prevChapter")
                 THEN [@ EXCEPT !.disabled = TRUE]
                 ELSE [@ EXCEPT !.listeners = Append(@, Scope(t))],
        !.next = IF t.pageNumber >= TotalPages(t.pageData) /\ ~Truthy(t.pageData, "nextChapter")
                 THEN [@ EXCEPT !.disabled = TRUE]
                 ELSE [@ EXCEPT !.listeners = Append(@, Scope(t))]]

\* renderReaderPage after its awaits: the elements it finds are updated, and
\* the keydown listener is added whatever page is shown
readerLoaded(b, t) ==
    [b EXCEPT !.app = IF @.page = "reader" THEN Displayed(@, t) ELSE @,
              !.keydown = Append(@, Scope(t))]

\* renderReaderPage from the await of task i on, the task taken off the list
\* when it ends: getPage, then getMangaById, then getChapters (on whose
\* answer chapters.find throws when it is null)
readerResumed(f, b, i, rest) ==
    LET t == b.tasks[i]
    IN  CASE t.at = "getPage" ->
                 IF ~apiGetPage(f, t.mangaId, t.chapterNumber, t.pageNumber).ok
                 THEN readerFailed(rest, t)
                 ELSE [b EXCEPT !.tasks[i].at = "getMangaById",
                                !.tasks[i].pageData =
                                    apiGetPage(f, t.mangaId, t.chapterNumber, t.pageNumber).data]
          [] t.at = "getMangaById" ->
                 IF ~apiGetMangaById(f, t.mangaId).ok THEN readerFailed(rest, t)
                 ELSE [b EXCEPT !.tasks[i].at = "getChapters"]
          [] OTHER ->
                 IF ~apiGetChapters(f, t.mangaId).ok \/ apiGetChapters(f, t.mangaId).data.nil
                 THEN readerFailed(rest, t)
                 ELSE readerLoaded(rest, t)

RECURSIVE InsertChapter(_, _)
\* c put behind the chapters it does not sort before, with the comparison
\* (a, b) => b.number - a.number: descending, equal numbers in their order
InsertChapter(sorted, c) ==
    IF Len(sorted) = 0 THEN <<c>>
    ELSE IF NumLess(sorted[1].number, c.number) THEN <<c>> \o sorted
    ELSE <<sorted[1]>> \o InsertChapter(Tail(sorted), c)

RECURSIVE SortedChapters(_)
\* [...chapters].sort((a, b) => b.number - a.number)
SortedChapters(chapters) ==
    IF Len(chapters) = 0 THEN <<>>
    ELSE InsertChapter(SortedChapters(SubSeq(chapters, 1, Len(chapters) - 1)),
                       chapters[Len(chapters)])

\* renderChaptersList: the data-number of the chapter items
ChapterItems(sorted) == [k \in 1..Len(sorted) |-> NumberToString(JSNum(sorted[k].number))]

\* renderMangaPage, once both fetches have answered: the chapter list, or
\* the error state after a failed fetch, the spread of a null chapter list
\* or the map of null genres
mangaLoaded(b, t, manga, chapters) ==
    IF b.app.page # "manga" THEN b
    ELSE IF ~manga.ok \/ ~chapters.ok \/ chapters.data.nil \/ manga.data.genres.nil
    THEN [b EXCEPT !.app.details = "error", !.app.items = <<>>, !.app.scope = Scope(t)]
    ELSE [b EXCEPT !.app.details = "list",
                   !.app.items = ChapterItems(SortedChapters(chapters.data.elems)),
                   !.app.scope = Scope(t)]

\* renderHomePage, once getAllManga has answered r: the cards, the empty
\* state, or the error state after a failed fetch or the length of null
homeLoaded(b, r) ==
    IF b.app.page # "home" THEN b
    ELSE IF ~r.ok \/ r.data.nil THEN [b EXCEPT !.app.grid = "error", !.app.cards = <<>>]
    ELSE IF Len(r.data.elems) > 0
    THEN [b EXCEPT !.app.grid = "cards",
                   !.app.cards = [k \in 1..Len(r.data.elems) |-> r.data.elems[k].id]]
    ELSE [b EXCEPT !.app.grid = "empty", !.app.cards = <<>>]

\* The task list without its i-th task
Without(tasks, i) == SubSeq(tasks, 1, i - 1) \o SubSeq(tasks, i + 1, Len(tasks))

\* The fetch that task i of b waits for is answered and the function goes on
Resumed(f, b, i) ==
    LET t    == b.tasks[i]
        rest == [b EXCEPT !.tasks = Without(@, i)]
    IN  CASE t.fn = "renderHomePage" -> homeLoaded(rest, apiGetAllManga(f))
          [] t.fn = "renderMangaPage" ->
                 mangaLoaded(rest, t, apiGetMangaById(f, t.mangaId), apiGetChapters(f, t.mangaId))
          [] t.fn = "navigateToPrevPage" ->
                 prevChapterFound(rest, t, apiGetChapters(f, t.mangaId))
          [] OTHER -> readerResumed(f, b, i, rest)

\* handleKeyNavigation
handleKeyNavigation(b, c, key) ==
    IF key \in {"ArrowLeft", "a"} THEN navigateToPrevPage(b, c)
    ELSE IF key \in {"ArrowRight", "d"} THEN navigateToNextPage(b, c)
    ELSE b

\* One listener, added in the scope c, handles the event ev
Handled(b, c, ev) ==
    CASE ev.type = "next"    -> navigateToNextPage(b, c)
      [] ev.type = "prev"    -> navigateToPrevPage(b, c)
      [] ev.type = "change"  ->
             navigateTo(b, ReaderURL(c.mangaId, NumberToString(c.chapterNumber), ev.value))
      [] OTHER               -> handleKeyNavigation(b, c, ev.key)

RECURSIVE Dispatched(_, _, _)
\* The listeners of an element handle the event ev one after the other
Dispatched(b, listeners, ev) ==
    IF Len(listeners) = 0 THEN b
    ELSE Dispatched(Handled(b, listeners[1], ev), Tail(listeners), ev)

\* A click on the button "Next >"
ClickedNext(b) == Dispatched(b, b.app.next.listeners, [type |-> "next"])

\* A click on the button "< Previous"
ClickedPrev(b) == Dispatched(b, b.app.prev.listeners, [type |-> "prev"])

\* A click on the chapter item k of the manga page
ClickedChapter(b, k) ==
    IF b.app.items[k] # <<>>
    THEN navigateTo(b, <<segReader, b.app.scope.mangaId, b.app.items[k], NatToStr(1)>>)
    ELSE b

\* A click on the manga card k of the home page
ClickedCard(b, k) ==
    IF b.app.cards[k] # <<>> THEN navigateTo(b, <<segManga, b.app.cards[k]>>) ELSE b

\* A click on the retry button of the page that is shown
ClickedRetry(b) ==
    CASE b.app.page = "home"  -> renderHomePage(b)
      [] b.app.page = "manga" -> renderMangaPage(b, b.app.scope.mangaId)
      [] OTHER -> renderReaderPage(b, b.app.scope.mangaId, b.app.scope.chapterNumber,
                                   b.app.scope.pageNumber)

\* popstate: handleRouteChange, added first, then the listeners that every
\* finished renderReaderPage has added and that remove its keydown listener
popstate(b) == [handleRouteChange(b) EXCEPT !.keydown = <<>>]

\* The library the browser is pointed at, by the sidecar of one-piece and
\* the layout of its chapters
WalkLibraries ==
    {Library(TRUE, TRUE, "valid", "numbered", FALSE),
     Library(TRUE, TRUE, "valid", "numbered", TRUE),
     Library(TRUE, TRUE, "none", "unnamed", FALSE),
     Library(TRUE, TRUE, "valid", "oddnames", FALSE),
     Library(TRUE, TRUE, "valid", "locked", FALSE),
     Library(TRUE, TRUE, "otherid", "sidecars", FALSE),
     Tree({<<RootDir, DirNode(TRUE)>>})}

\* The paths the tab is opened on: /, /manga/one-piece/ and
\* /reader/one-piece/1/1
StartPaths ==
    {HomePath, <<segManga, nOnePiece, <<>>>>, ReaderURL(nOnePiece, s1, 1)}

InitWalk ==
    /\ fs \in WalkLibraries
    /\ last = Idle
    /\ ops = 0
    /\ running = <<>>
    /\ browser \in {initRouter(p) : p \in StartPaths}

\* The user does something while at most MaxPending fetches are awaited,
\* and the handlers leave the browser as b
UserEvent(b) ==
    /\ ops < MaxEvents
    /\ Len(browser.tasks) <= MaxPending
    /\ browser' = b
    /\ ops' = ops + 1
    /\ UNCHANGED <<fs, last, running>>

\* The button "Next >" is clicked
clickNext ==
    /\ browser.app.page = "reader"
    /\ ~browser.app.next.disabled
    /\ browser.app.next.listeners # <<>>
    /\ UserEvent(ClickedNext(browser))

\* The button "< Previous" is clicked
clickPrev ==
    /\ browser.app.page = "reader"
    /\ ~browser.app.prev.disabled
    /\ browser.app.prev.listeners # <<>>
    /\ UserEvent(ClickedPrev(browser))

\* The image is clicked in its left or in its right third
clickImage ==
    /\ browser.app.page = "reader"
    /\ browser.app.image = "img"
    /\ \/ UserEvent(navigateToPrevPage(browser, browser.app.scope))
       \/ UserEvent(navigateToNextPage(browser, browser.app.scope))

\* Another page is chosen in the page selector
selectPage ==
    /\ browser.app.page = "reader"
    /\ ~browser.app.select.disabled
    /\ \E v \in 1..browser.app.select.options :
           /\ v # browser.app.select.selected
           /\ UserEvent(Dispatched([browser EXCEPT !.app.select.selected = v],
                                   browser.app.select.listeners,
                                   [type |-> "change", value |-> v]))

\* The left or the right arrow key is pressed, on whatever page
pressKey ==
    /\ browser.keydown # <<>>
    /\ \E key \in {"ArrowLeft", "ArrowRight"} :
           UserEvent(Dispatched(browser, browser.keydown, [type |-> "keydown", key |-> key]))

\* The retry button of an error state is clicked
clickRetry ==
    /\ \/ browser.app.page = "home" /\ browser.app.grid = "error"
       \/ browser.app.page = "manga" /\ browser.app.details = "error"
       \/ browser.app.page = "reader" /\ browser.app.image = "error"
    /\ UserEvent(ClickedRetry(browser))

\* A chapter of the manga page is clicked
clickChapter ==
    /\ browser.app.page = "manga"
    /\ \E k \in 1..Len(browser.app.items) : UserEvent(ClickedChapter(browser, k))

\* A manga card of the home page is clicked
clickCard ==
    /\ browser.app.page = "home"
    /\ \E k \in 1..Len(browser.app.cards) : UserEvent(ClickedCard(browser, k))

\* The link "Back to Home" of the manga page is clicked: its own listener
\* calls navigateTo('/') and the click listener of document, which the
\* event reaches next, calls navigateTo(link.href)
clickBackToHome ==
    /\ browser.app.page = "manga"
    /\ UserEvent(navigateTo(navigateTo(browser, HomePath), HomePath))

\* The link "Back to Details" of the reader is clicked: the click listener
\* of document calls navigateTo(link.href)
clickBackToDetails ==
    /\ browser.app.page = "reader"
    /\ UserEvent(navigateTo(browser, <<segManga, browser.app.backTo>>))

\* The back button of the browser
goBack ==
    /\ Len(browser.hist) > 1
    /\ UserEvent(popstate([browser EXCEPT
                              !.path = browser.hist[Len(browser.hist) - 1],
                              !.hist = SubSeq(@, 1, Len(@) - 1)]))

\* An awaited fetch is answered
resume ==
    /\ \E i \in 1..Len(browser.tasks) : browser' = Resumed(fs, browser, i)
    /\ UNCHANGED <<fs, last, ops, running>>

NextWalk ==
    \/ clickNext
    \/ clickPrev
    \/ clickImage
    \/ selectPage
    \/ pressKey
    \/ clickRetry
    \/ clickChapter
    \/ clickCard
    \/ clickBackToHome
    \/ clickBackToDetails
    \/ goBack
    \/ resume

SpecWalk == InitWalk /\ [][NextWalk]_vars

\* The scan index of the chapter with the ID, 0 when none has it
IndexOfID(chapters, id) ==
    IF \E k \in 1..Len(chapters) : chapters[k].ID = id
    THEN CHOOSE k \in 1..Len(chapters) : chapters[k].ID = id
    ELSE 0

\* The reader shows a page of one-piece, nothing is awaited, and the button
\* "Next >" has the one listener of the call that rendered the page
ReaderAtRest(b) ==
    /\ b.app.page = "reader"
    /\ b.tasks = <<>>
    /\ b.app.image = "img"
    /\ Len(b.app.next.listeners) <= 1
    /\ b.app.next.listeners # <<>> => b.app.next.listeners[1] = b.app.scope

\* The answer of getPage to the request that the last task of b waits for
Requested(f, b) ==
    LET t == b.tasks[Len(b.tasks)]
    IN  GetPageResp(f, t.mangaId, NumberToString(t.chapterNumber), NatToStr(t.pageNumber))

\* C26: the walk through a series with the button "Next >" visits every
\* page of every chapter once, in scan order.  A click on the chapter at
\* scan index 0 in the chapter list opens the reader, whose request is
\* answered 200 with page 1 of that chapter; a click on "Next >" in the
\* reader that shows page p of the chapter at index i opens the reader on a
\* request that is answered 200 with page p+1 of that chapter while p is
\* below its page count and with page 1 of the chapter at index i+1
\* otherwise; and the button is disabled on the last page of the last
\* chapter only.
C26_WalkVisitsEveryPage ==
    [][/\ (/\ browser.app.page = "manga"
           /\ browser.app.details = "list"
           /\ browser.tasks = <<>>
           /\ \E k \in 1..Len(browser.app.items) :
                  /\ browser.app.items[k] =
                         NumberToString(JSNum(
                             ScannedChapters(fs, browser.app.scope.mangaId)[1].Number))
                  /\ browser' = ClickedChapter(browser, k))
              => /\ browser'.app.page = "reader"
                 /\ Requested(fs, browser').status = StatusOK
                 /\ Requested(fs, browser').body.chapterID =
                        ScannedChapters(fs, browser.app.scope.mangaId)[1].ID
                 /\ Requested(fs, browser').body.pageNumber = 1
       /\ (/\ ReaderAtRest(browser)
           /\ browser.app.next.listeners # <<>>
           /\ browser' = ClickedNext(browser))
              => LET c        == browser.app.scope
                     chapters == ScannedChapters(fs, c.mangaId)
                     i        == IndexOfID(chapters, c.pageData.chapterID)
                     n        == Len(GetPages(fs, chapters[i]).pages)
                     want     == IF c.pageData.pageNumber < n
                                 THEN <<i, c.pageData.pageNumber + 1>>
                                 ELSE <<i + 1, 1>>
                 IN  /\ browser'.app.page = "reader"
                     /\ Requested(fs, browser').status = StatusOK
                     /\ Requested(fs, browser').body.chapterID = chapters[want[1]].ID
                     /\ Requested(fs, browser').body.pageNumber = want[2]
       /\ (ReaderAtRest(browser') /\ browser'.app.next.disabled)
              => LET c        == browser'.app.scope
                     chapters == ScannedChapters(fs, c.mangaId)
                 IN  /\ c.pageData.chapterID = chapters[Len(chapters)].ID
                     /\ c.pageData.pageNumber =
                            Len(GetPages(fs, chapters[Len(chapters)]).pages)
      ]_vars

\* The chapterCount of the answer for the series m equals the number of
\* chapters the scan returns for it
CountIsScan(f, m, count) == count = Len(ScanForChapters(f, m).chapters)

\* The chapterCount of the answer for the series m: what the sidecar of its
\* directory says (0 when it does not say) when there is one, else the
\* number of chapters the scan returns for it
CountIsStoredOrScan(f, m, count) ==
    LET p == Join(m.Path, MetadataFileName)
    IN  IF Stat(f, p)
        THEN count = Field(f[p].data.obj, "chapterCount", 0)
        ELSE CountIsScan(f, m, count)

\* C27 as claimed: the chapterCount of every series in a listManga or
\* getManga answer is the number of chapters ScanForChapters returns for it.
C27_CountIsScanLength ==
    /\ (last.op = "listManga" /\ last.status = StatusOK)
           => \A i \in 1..Len(last.body.elems) :
                  CountIsScan(fs, ScanForManga(fs).mangas[i],
                              last.body.elems[i].chapterCount)
    /\ (last.op = "getManga" /\ last.status = StatusOK)
           => CountIsScan(fs, GetMangaByID(fs, last.req.id).manga, last.body.chapterCount)

\* C27 as amended: the chapterCount of a series without a sidecar is the
\* number of chapters ScanForChapters returns for it; the chapterCount of a
\* series with a sidecar is the number stored there.
C27_CountIsStoredOrScanLength ==
    /\ (last.op = "listManga" /\ last.status = StatusOK)
           => \A i \in 1..Len(last.body.elems) :
                  CountIsStoredOrScan(fs, ScanForManga(fs).mangas[i],
                                      last.body.elems[i].chapterCount)
    /\ (last.op = "getManga" /\ last.status = StatusOK)
           => CountIsStoredOrScan(fs, GetMangaByID(fs, last.req.id).manga,
                                  last.body.chapterCount)

\* C27 witness: after an addChapter, listManga reports four chapters for
\* the series one-piece, which has no sidecar.
C27_CountedAfterAddChapter ==
    /\ last.op = "listManga"
    /\ last.status = StatusOK
    /\ ops = 1
    /\ ~Stat(fs, Join(OnePiecePath, MetadataFileName))
    /\ Len(last.body.elems) = 1
    /\ last.body.elems[1].chapterCount = 4

\* C28: the pageCount that listChapters reports for a chapter is the number
\* of pages GetPages returns for it.
C28_PageCountIsPages ==
    (last.op = "listChapters" /\ last.status = StatusOK) =>
        \A i \in 1..Len(last.body.elems) :
            LET gp == GetPages(fs, ScannedChapters(fs, last.req.id)[i])
            IN  gp.err = "" => last.body.elems[i].pageCount = Len(gp.pages)

\* The file that the static server mounted on the root serves for the URL
ServedPath(url) == RootDir \o Drop(url, 1)

\* The pages of the chapter a getChapter or getPage request names
RequestedPages(f, req) ==
    LET chapters == ScannedChapters(f, req.id)
    IN  GetPages(f, chapters[ScanIndex(chapters, ParseFloat(req.chapterNumber).val)]).pages

\* C29: the imageUrl of every page in a getChapter or getPage answer is
\* "/manga-images/" followed by the path of the page's image file below
\* the root, so that the static server serves that file.
C29_ImageUrlIsRelativePath ==
    /\ (last.op = "getChapter" /\ last.status = StatusOK)
           => \A j \in 1..Len(last.body.pages.elems) :
                  /\ last.body.pages.elems[j].imageUrl[1] = <<"m", "a", "n", "g", "a", "-",
                                                              "i", "m", "a", "g", "e", "s">>
                  /\ ServedPath(last.body.pages.elems[j].imageUrl)
                         = RequestedPages(fs, last.req)[j].ImagePath
    /\ (last.op = "getPage" /\ last.status = StatusOK)
           => LET pages == RequestedPages(fs, last.req)
              IN  ServedPath(last.body.imageUrl)
                      = pages[FindPage(pages, last.body.pageNumber)].ImagePath

\* ---------------------------------------------------------------------
\* Concurrent updateManga requests: each handler looks the series up,
\* changes the fields its body provides and saves the sidecar, without a lock

MaxUpdates == 2

InitUpdate ==
    /\ fs \in ConcLibraries
    /\ last = Idle
    /\ ops = 0
    /\ running = [i \in Slots |-> Free]
    /\ browser = NoBrowser

\* An admin request arrives and its goroutine starts
acceptUpdate ==
    \E i \in Slots, q \in ConcAdmins :
        /\ running[i].op = "free"
        /\ ops < MaxUpdates
        /\ running' = [running EXCEPT ![i] = Started(q, "ok", fs)]
        /\ ops' = ops + 1
        /\ UNCHANGED <<fs, last, browser>>

NextUpdate ==
    \/ acceptUpdate
    \/ addManga
    \/ updateManga
    \/ addChapter
    \/ updateChapter
    \/ respond

SpecUpdate == InitUpdate /\ [][NextUpdate]_vars

\* The handler of r has answered 200 to an updateManga of id with body b
Updated(r, id, b) ==
    /\ r.op = "updateManga"
    /\ r.pc = "done"
    /\ r.req.id = id
    /\ r.req.body = b
    /\ r.resp.status = StatusOK

\* The sidecar of the series in directory dir holds every field that the
\* bodies a and b provide
HoldsBoth(f, dir, a, b) ==
    /\ LoadManga(f, Join(dir, MetadataFileName)).err = ""
    /\ LET m == LoadManga(f, Join(dir, MetadataFileName)).manga
       IN  UpdatedManga(UpdatedManga(m, a), b) = m

\* The bodies a and b provide different fields
DifferentFields(a, b) ==
    /\ a # b
    /\ \A k \in {"Description", "Author", "Artist", "Status"} : a[k] = "" \/ b[k] = ""
    /\ a.Title = <<>> \/ b.Title = <<>>
    /\ Len(a.Genres.elems) = 0 \/ Len(b.Genres.elems) = 0

\* C30 (as stated): once two updateManga requests for the same series that
\* change different fields have both completed, the sidecar contains both
\* changes
C30_NoLostUpdate ==
    \A i, j \in Slots :
        \A a, b \in UpdateMangaReqs :
            (/\ DifferentFields(a, b)
             /\ Updated(running[i], nOnePiece, a)
             /\ Updated(running[j], nOnePiece, b))
            => HoldsBoth(fs, running[i].g.manga.Path, a, b)

\* The record m holds every field that the body b provides
Holds(m, b) == UpdatedManga(m, b) = m

\* Once the only two updateManga requests for a series, changing different
\* fields, have both completed, the sidecar contains both changes if one of
\* them looked the series up after the other had saved it, that is, if the
\* record it got already holds the other's change
SerialUpdatesKept ==
    \A i, j \in Slots :
        \A a, b \in UpdateMangaReqs :
            (/\ DifferentFields(a, b)
             /\ ops = 2
             /\ Updated(running[i], nOnePiece, a)
             /\ Updated(running[j], nOnePiece, b)
             /\ Holds(running[j].g.manga, a))
            => HoldsBoth(fs, running[i].g.manga.Path, a, b)

\* The write of the second of the only two updateManga requests for a
\* series, changing different fields (a in slot i, after b in slot j has
\* answered 200): when the record the second had looked up holds the
\* change of the first, the sidecar contains both changes; when it does
\* not, the sidecar is the document of the second, without the change of
\* the first, unless the first wrote between the open and the write of the
\* second and the document of the second is the shorter one: then the
\* sidecar is that document followed by the end of the first's, which does
\* not load
LastWriteDecides ==
    \A i, j \in Slots :
        \A a, b \in UpdateMangaReqs :
            (/\ DifferentFields(a, b)
             /\ ops = 2
             /\ Updated(running[j], nOnePiece, b)
             /\ running[i].pc = "opened"
             /\ Updated(running'[i], nOnePiece, a))
            => LET p      == Join(running'[i].g.manga.Path, MetadataFileName)
                   mine   == Document("updateManga", running'[i].sv.rec)
                   theirs == Document("updateManga", running[j].sv.rec)
               IN  IF Holds(running[i].g.manga, b)
                   THEN HoldsBoth(fs', running'[i].g.manga.Path, a, b)
                   ELSE \/ /\ fs'[p].data = mine
                           /\ (fs[p].data = theirs
                                   => \E n \in SizesOf(mine), m \in SizesOf(theirs) : n >= m)
                           /\ LoadManga(fs', p).err = ""
                           /\ Holds(LoadManga(fs', p).manga, a)
                           /\ ~Holds(LoadManga(fs', p).manga, b)
                        \/ /\ fs[p].data = theirs
                           /\ \E n \in SizesOf(mine), m \in SizesOf(theirs) : n < m
                           /\ fs'[p].data = Torn(mine, theirs)
                           /\ LoadManga(fs', p).err = "MetadataError"

\* C30 (amended): when the only two updateManga requests for a series
\* change different fields and both answer 200, the sidecar after both
\* have completed contains both changes if one of them looked the series up
\* after the other's SaveToJSON had returned.  If both looked it up before
\* either saved, the sidecar holds the record of the request that wrote
\* last, so the change of the request that wrote first is lost; or, when
\* the two os.WriteFile calls overlapped and the last write was the shorter
\* document, it holds that document followed by the end of the other and
\* does not parse.
C30_UpdatesKeptOrLost == []SerialUpdatesKept /\ [][LastWriteDecides]_vars

\* Two updates of one-piece have both completed, the second having looked
\* the series up after the first had saved the new title
C30_SecondReadAfterFirstWrite ==
    \E i, j \in Slots :
        \E a, b \in UpdateMangaReqs :
            /\ DifferentFields(a, b)
            /\ ops = 2
            /\ Updated(running[i], nOnePiece, a)
            /\ Updated(running[j], nOnePiece, b)
            /\ a.Title = tRenamed
            /\ running[j].g.manga.Title = tRenamed
            /\ running[i].g.manga.Title # tRenamed
            /\ HoldsBoth(fs, running[i].g.manga.Path, a, b)

====
